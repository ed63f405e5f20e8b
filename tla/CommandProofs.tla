---------------------------- MODULE CommandProofs ---------------------------
(***************************************************************************)
(* Proofs about Command, for all command lines, files and bounds: that no  *)
(* command comes to a system call it has given up the promise for, and that*)
(* a public key that was not named is the one its signature names. The     *)
(* invariant says which steps a verb still has before it and in which order*)
(* (StepsLeft), which promises are left then, and, for every file and for  *)
(* the signature in memory, that what is known to come from a secret key   *)
(* file has the names that go with it (Origin). Only the command that reads*)
(* the public key relies on all of it.                                     *)
(*                                                                         *)
(* Then about what commands use: how ReadMsg reads the message that one    *)
(* begins with, and at the end the random numbers of Arc4random, for every *)
(* number of processes, calls and forks and all sizes: no byte of keystream*)
(* comes twice, what was given out is gone, and entropy comes in time.     *)
(***************************************************************************)
EXTENDS Command, ReadMsg, Arc4random, WellFoundedInduction, TLAPS

(* What main makes of the options, and what of it a command may still do.  *)
Verbs == {"CHECK", "GENERATE", "SIGN", "VERIFY"}
Name == Seq(Words)
Optional == Name \cup {NULL}
OptType ==
  [verb : Verbs \cup {"NONE"}, embedded : BOOLEAN, gzip : BOOLEAN, none : BOOLEAN, comment : Name,
   msg : Optional, pub : Optional, sec : Optional, sig : Optional, keytype : Optional]

(* The order in which the steps of a verb come.                            *)
StepNames ==
  {"message", "truncate", "sigmsg", "seckey", "kdf", "newsig", "newsec", "newpub", "pubkey", "checksums", "output"}
Rank ==
  [s \in StepNames |->
    CASE s = "message" -> 1 [] s \in {"truncate", "sigmsg"} -> 2 [] s = "seckey" -> 3 [] s = "kdf" -> 4
      [] s \in {"newsig", "newsec"} -> 5 [] s = "newpub" -> 6 [] s = "pubkey" -> 7 [] OTHER -> 8]
Ordered(steps) == \A i, j \in 1..Len(steps) : i < j => Rank[steps[i]] < Rank[steps[j]]

(* The steps of the verbs that keep all promises, and of those that read.  *)
MaySteps(o) ==
  CASE o.verb = "GENERATE" -> {"kdf", "newsec", "newpub"}
    [] o.verb = "SIGN" -> {"message", "truncate", "seckey", "kdf", "newsig"}
    [] o.verb = "CHECK" -> {"sigmsg", "pubkey", "checksums"}
    [] o.verb = "VERIFY" -> {"message", "sigmsg", "pubkey"} \cup (IF o.embedded \/ o.gzip THEN {"output"} ELSE {})
    [] OTHER -> {}

(* What is left of the steps of a verb. kdf comes after the secret key.    *)
StepsLeft(steps, o) ==
  /\ steps \in Seq(StepNames) /\ Ordered(steps)
  /\ \A i \in 1..Len(steps) : steps[i] \in MaySteps(o)
  /\ steps # << >> => steps[Len(steps)] # "seckey"

PromisesOf(o) == IF o.verb \in {"GENERATE", "SIGN"} THEN Promises ELSE ReadPromises(o)

TypesInv ==
  /\ opt \in OptType
  /\ \A f \in DOMAIN disk : disk[f] \in FileType
  /\ comment \in Name
  /\ pair \in Optional

TodoInv == pc = "run" => StepsLeft(todo, opt)

PledgeInv ==
  /\ pc \notin {"verb", "run"} => pledged = Promises /\ waived = {} /\ call = NoCall
  /\ pc = "verb" => pledged = Promises /\ waived = waive_flags(Promises) /\ call = Call("pledge", Dash)
  /\ pc = "run" =>
       /\ opt.verb \in Verbs
       /\ pledged = PromisesOf(opt) /\ waived = waive_flags(Promises) \cup waive_flags(PromisesOf(opt))
       /\ Needs(call) \subseteq PromisesOf(opt)
       /\ opt.verb = "VERIFY" => opt.msg # NULL

(* The name -G gives the public key of the pair of a secret key.           *)
PubNameOf(sec) == Stem(Base(sec)) \o <<".pub">>

(* What a file f that is known to come from a secret key file holds.       *)
Origin(f, d) ==
  d.pair # NULL =>
    /\ d.kind = "sec" => d.pair = f
    /\ d.kind = "pub" => Base(f) = PubNameOf(d.pair)
    /\ d.kind \in {"sig", "gz"} => d.comment = <<VERIFYWITH>> \o PubNameOf(d.pair)

PairInv ==
  /\ \A f \in DOMAIN disk : Origin(f, disk[f])
  /\ pair # NULL => comment = <<VERIFYWITH>> \o PubNameOf(pair)
  /\ pc = "run" /\ opt.verb = "GENERATE" =>
       opt.pub # NULL /\ opt.sec # NULL /\ check_keyname_compliance(opt.pub, opt.sec)
  /\ pc = "run" /\ opt.verb = "SIGN" => opt.sec # NULL

(* The key is the one that the comment names, and was read last.           *)
KeyInv ==
  /\ pc # "run" => key = NULL /\ pair = NULL
  /\ key # NULL => key = KeyPath(opt, comment) /\ \A i \in 1..Len(todo) : Rank[todo[i]] > Rank["pubkey"]

CommandInv == TypesInv /\ TodoInv /\ PledgeInv /\ PairInv /\ KeyInv

(* A nonempty set of natural numbers has a least one, and one of positions *)
(* in a sequence a greatest one, so that what CHOOSE is asked for exists.  *)
LEMMA NatLeast ==
  ASSUME NEW T \in SUBSET Nat, T # {}
  PROVE  \E m \in T : \A n \in T : m <= n
  <1> DEFINE R == OpToRel(<, Nat)
  <1>1. IsWellFoundedOn(R, Nat)
    BY NatLessThanWellFounded
  <1>2. \A x, y \in Nat : <<y, x>> \in R <=> y < x
    BY DEF R, OpToRel
  <1> HIDE DEF R
  <1>3. PICK m \in T : \A n \in T : ~ (<<n, m>> \in R)
    BY <1>1, WFMin
  <1>4. \A n \in T : m \in Nat /\ n \in Nat /\ ~ (n < m)
    BY <1>2, <1>3
  <1> QED BY <1>4

LEMMA GreatestExists ==
  ASSUME NEW n \in Nat, NEW at \in SUBSET (1..n), at # {}
  PROVE  \E k \in at : \A l \in at : l <= k
  <1> DEFINE T == {m \in Nat : \E k \in at : m = n - k}
  <1>1. \A k \in at : n - k \in T
    OBVIOUS
  <1>2. PICK m \in T : \A j \in T : m <= j
    <2>1. T \in SUBSET Nat /\ T # {}
      BY <1>1
    <2> HIDE DEF T
    <2> QED BY <2>1, NatLeast
  <1>3. PICK k \in at : m = n - k
    OBVIOUS
  <1>4. ASSUME NEW l \in at PROVE l <= k
    <2>1. n - l \in T
      BY <1>1
    <2> HIDE DEF T
    <2>2. m <= n - l
      BY <1>2, <2>1
    <2> QED BY <1>3, <2>2
  <1> QED BY <1>4

(* The last place of a word in a name, and the last of a flag among the    *)
(* options.                                                                *)
LEMMA LastOfIs ==
  ASSUME NEW name \in Name, NEW word, Has(name, word)
  PROVE  /\ LastOf(name, word) \in 1..Len(name)
         /\ name[LastOf(name, word)] = word
         /\ \A l \in 1..Len(name) : name[l] = word => l <= LastOf(name, word)
  <1> DEFINE at == {k \in 1..Len(name) : name[k] = word}
             Best(k) == \A l \in at : l <= k
  <1>1. at \in SUBSET (1..Len(name)) /\ at # {} /\ Len(name) \in Nat
    BY DEF Has, Name
  <1>2. \E k \in at : Best(k)
    BY <1>1, GreatestExists
  <1>3. LastOf(name, word) = CHOOSE k \in at : Best(k)
    BY Zenon DEF LastOf
  <1> HIDE DEF Best
  <1>4. LastOf(name, word) \in at /\ Best(LastOf(name, word))
    BY <1>2, <1>3
  <1> QED BY <1>4 DEF Best

LEMMA LatestIs ==
  ASSUME NEW opts, NEW flag, Len(opts) \in Nat, Given(opts, flag)
  PROVE  Latest(opts, flag) \in 1..Len(opts) /\ opts[Latest(opts, flag)][1] = flag
  <1> DEFINE at == {k \in 1..Len(opts) : opts[k][1] = flag}
             Best(k) == \A l \in at : l <= k
  <1>1. at # {}
    BY DEF Given, Latest
  <1>2. \E k \in at : Best(k)
    BY <1>1, GreatestExists
  <1>3. Latest(opts, flag) = CHOOSE k \in at : Best(k)
    BY <1>1, Zenon DEF Latest
  <1> HIDE DEF Best
  <1>4. Latest(opts, flag) \in at
    BY <1>2, <1>3
  <1> QED BY <1>4

(* Names, put together and taken apart.                                    *)
LEMMA SameName ==
  ASSUME NEW a \in Name, NEW b \in Name, Len(a) = Len(b), \A i \in 1..Len(a) : a[i] = b[i]
  PROVE  a = b
  BY DEF Name

LEMMA JoinNames ==
  ASSUME NEW a \in Name, NEW b \in Name
  PROVE  /\ a \o b \in Name /\ Len(a \o b) = Len(a) + Len(b)
         /\ \A i \in 1..Len(a) : (a \o b)[i] = a[i]
         /\ \A i \in 1..Len(b) : (a \o b)[Len(a) + i] = b[i]
  BY DEF Name

LEMMA JoinAssociates ==
  ASSUME NEW a \in Name, NEW b \in Name, NEW c \in Name
  PROVE  a \o (b \o c) = (a \o b) \o c
  BY DEF Name

LEMMA OneWord ==
  ASSUME NEW x \in Words
  PROVE  <<x>> \in Name /\ Len(<<x>>) = 1 /\ <<x>>[1] = x
  BY DEF Name

LEMMA LiteralWords ==
  /\ <<"-">> \in Name /\ <<".pub">> \in Name /\ <<".sig">> \in Name /\ <<"secretkey">> \in Name
  /\ <<"publickey">> \in Name /\ <<"signaturefrom">> \in Name /\ <<"signify">> \in Name
  /\ <<VERIFYWITH>> \in Name /\ VERIFYWITH \in Words /\ ".pub" \in Words
  /\ safepath \in Name /\ Len(safepath) = 2 /\ safepath[1] = "/etc/signify" /\ safepath[2] = "/"
  <1>1. /\ "/" \in Words /\ "-" \in Words /\ ".pub" \in Words /\ ".sig" \in Words /\ "/etc/signify" \in Words
        /\ "signify" \in Words /\ "verifywith" \in Words /\ "signaturefrom" \in Words
        /\ "secretkey" \in Words /\ "publickey" \in Words
    BY CommandAssumption
  <1>2. <<"/etc/signify", "/">> \in Seq(Words)
    BY <1>1
  <1> QED BY <1>1, <1>2, OneWord DEF Name, safepath, VERIFYWITH

LEMMA AfterName ==
  ASSUME NEW name \in Name, NEW k \in 0..Len(name)
  PROVE  After(name, k) \in Name /\ Len(After(name, k)) = Len(name) - k
         /\ \A i \in 1..(Len(name) - k) : After(name, k)[i] = name[k + i]
  BY DEF After, Name

LEMMA BaseName ==
  ASSUME NEW name \in Name
  PROVE  Base(name) \in Name
  <1>1. CASE Has(name, "/")
    <2>1. LastOf(name, "/") \in 0..Len(name)
      BY <1>1, LastOfIs DEF Name
    <2> QED BY <1>1, <2>1, AfterName DEF Base
  <1>2. CASE ~ Has(name, "/")
    BY <1>2 DEF Base
  <1> QED BY <1>1, <1>2

(* The hint of a comment is what follows VERIFYWITH, and what createsig    *)
(* puts there.                                                             *)
LEMMA HintIsName ==
  ASSUME NEW c \in Name, Has(c, VERIFYWITH)
  PROVE  Hint(c) \in Name
  <1> DEFINE First(k) == c[k] = VERIFYWITH /\ \A l \in 1..(k - 1) : c[l] # VERIFYWITH
             T == {k \in 1..Len(c) : c[k] = VERIFYWITH}
  <1>1. Len(c) \in Nat
    BY DEF Name
  <1>2. T \in SUBSET Nat /\ T # {}
    BY <1>1 DEF Has
  <1>3. PICK m \in T : \A n \in T : m <= n
    <2> HIDE DEF T
    <2> QED BY <1>2, NatLeast
  <1>4. First(m) /\ m \in 1..Len(c)
    BY <1>1, <1>3
  <1>5. Hint(c) = After(c, CHOOSE k \in 1..Len(c) : First(k))
    BY Zenon DEF Hint
  <1> HIDE DEF First
  <1>6. (CHOOSE k \in 1..Len(c) : First(k)) \in 1..Len(c)
    BY <1>4
  <1>7. (CHOOSE k \in 1..Len(c) : First(k)) \in 0..Len(c)
    BY <1>1, <1>6
  <1> QED BY <1>5, <1>7, AfterName

LEMMA HintOfNamed ==
  ASSUME NEW n \in Name
  PROVE  Hint(<<VERIFYWITH>> \o n) = n
  <1> DEFINE c == <<VERIFYWITH>> \o n
             First(k) == c[k] = VERIFYWITH /\ \A l \in 1..(k - 1) : c[l] # VERIFYWITH
  <1>1. c \in Name /\ Len(c) = 1 + Len(n) /\ c[1] = VERIFYWITH /\ \A i \in 1..Len(n) : c[i + 1] = n[i]
    <2>1. <<VERIFYWITH>> \in Name /\ Len(<<VERIFYWITH>>) = 1 /\ <<VERIFYWITH>>[1] = VERIFYWITH
      BY LiteralWords, OneWord
    <2> DEFINE v == <<VERIFYWITH>>
    <2> HIDE DEF v
    <2>2. v \in Name /\ Len(v) = 1 /\ v[1] = VERIFYWITH
      BY <2>1 DEF v
    <2>3. /\ v \o n \in Name /\ Len(v \o n) = Len(v) + Len(n)
          /\ \A i \in 1..Len(v) : (v \o n)[i] = v[i]
          /\ \A i \in 1..Len(n) : (v \o n)[Len(v) + i] = n[i]
      BY <2>2, JoinNames
    <2>4. c = v \o n
      BY DEF v
    <2>5. \A i \in 1..Len(n) : i + 1 = 1 + i
      OBVIOUS
    <2> HIDE DEF c
    <2> QED BY <2>2, <2>3, <2>4, <2>5
  <1> HIDE DEF c
  <1>2. Len(n) \in Nat
    BY DEF Name
  <1>3. \A k \in 1..Len(c) : First(k) <=> k = 1
    BY <1>1, <1>2
  <1>4. Hint(c) = After(c, CHOOSE k \in 1..Len(c) : First(k))
    BY Zenon DEF Hint
  <1>5. (CHOOSE k \in 1..Len(c) : First(k)) = 1
    BY <1>1, <1>2, <1>3
  <1>6. Hint(c) = After(c, 1)
    BY <1>4, <1>5
  <1>7. After(c, 1) \in Name /\ Len(After(c, 1)) = Len(n) /\ \A i \in 1..Len(n) : After(c, 1)[i] = n[i]
    <2>1. 1 \in 0..Len(c)
      BY <1>1, <1>2
    <2>2. /\ After(c, 1) \in Name /\ Len(After(c, 1)) = Len(c) - 1
          /\ \A i \in 1..(Len(c) - 1) : After(c, 1)[i] = c[1 + i]
      BY <1>1, <2>1, AfterName
    <2> QED BY <1>1, <1>2, <2>2
  <1>8. After(c, 1) = n
    BY <1>7, SameName
  <1> QED BY <1>6, <1>8 DEF c

(* What lies in /etc/signify itself has its own name for a base.           *)
LEMMA BaseOfSafe ==
  ASSUME NEW h \in Name, ~ Has(h, "/")
  PROVE  Base(safepath \o h) = h
  <1> DEFINE p == safepath \o h
  <1>1. p \in Name /\ Len(p) = 2 + Len(h) /\ p[2] = "/" /\ \A i \in 1..Len(h) : p[i + 2] = h[i]
    <2>1. safepath \in Name /\ Len(safepath) = 2 /\ safepath[2] = "/"
      BY LiteralWords
    <2>2. /\ p \in Name /\ Len(p) = Len(safepath) + Len(h)
          /\ \A i \in 1..Len(safepath) : p[i] = safepath[i]
          /\ \A i \in 1..Len(h) : p[Len(safepath) + i] = h[i]
      BY <2>1, JoinNames
    <2>3. \A i \in 1..Len(h) : i + 2 = 2 + i
      OBVIOUS
    <2> HIDE DEF p
    <2> QED BY <2>1, <2>2, <2>3
  <1> HIDE DEF p
  <1>2. Len(h) \in Nat
    BY DEF Name
  <1>3. Has(p, "/")
    BY <1>1, <1>2 DEF Has
  <1>4. \A i \in 1..Len(h) : h[i] # "/"
    BY DEF Has
  <1>5. LastOf(p, "/") = 2
    <2>1. /\ LastOf(p, "/") \in 1..Len(p) /\ p[LastOf(p, "/")] = "/"
          /\ \A l \in 1..Len(p) : p[l] = "/" => l <= LastOf(p, "/")
      BY <1>1, <1>3, LastOfIs
    <2> DEFINE k == LastOf(p, "/")
    <2> HIDE DEF k
    <2>2. k \in 1..(2 + Len(h)) /\ p[k] = "/" /\ 2 <= k
      BY <1>1, <1>2, <2>1 DEF k
    <2>3. k > 2 => k - 2 \in 1..Len(h) /\ p[(k - 2) + 2] = h[k - 2]
      BY <1>1, <1>2, <2>2
    <2>4. k > 2 => FALSE
      BY <1>4, <2>2, <2>3
    <2>5. k = 2
      BY <2>2, <2>4
    <2> QED BY <2>5 DEF k
  <1>6. After(p, 2) \in Name /\ Len(After(p, 2)) = Len(h) /\ \A i \in 1..Len(h) : After(p, 2)[i] = h[i]
    <2>1. 2 \in 0..Len(p)
      BY <1>1, <1>2
    <2>2. /\ After(p, 2) \in Name /\ Len(After(p, 2)) = Len(p) - 2
          /\ \A i \in 1..(Len(p) - 2) : After(p, 2)[i] = p[2 + i]
      BY <1>1, <2>1, AfterName
    <2> QED BY <1>1, <1>2, <2>2
  <1>7. After(p, 2) = h
    BY <1>6, SameName
  <1> QED BY <1>3, <1>5, <1>7 DEF Base, p

(* check_keytype: the name ends with "-", the type and ".pub".             *)
LEMMA KeytypeEnds ==
  ASSUME NEW h \in Name, NEW t \in Name, check_keytype(h, t)
  PROVE  \E k \in 0..Len(h) : h = SubSeq(h, 1, k) \o <<"-">> \o t \o <<".pub">>
  <1> DEFINE k == LastOf(h, "-")
             p == After(h, k)
  <1>1. Has(h, "-") /\ IsPrefix(t, p) /\ After(p, Len(t)) = <<".pub">>
    BY DEF check_keytype
  <1>2. k \in 1..Len(h) /\ h[k] = "-"
    BY <1>1, LastOfIs
  <1> HIDE DEF k
  <1>3. Len(h) \in Nat /\ Len(t) \in Nat
    BY DEF Name
  <1>4. p \in Name /\ Len(p) = Len(h) - k /\ \A i \in 1..(Len(h) - k) : p[i] = h[k + i]
    BY <1>2, <1>3, AfterName
  <1> HIDE DEF p
  <1>5. Len(t) <= Len(p) /\ SubSeq(t, 1, Len(t)) = SubSeq(p, 1, Len(t))
    BY <1>1 DEF IsPrefix
  <1>6. \A i \in 1..Len(t) : t[i] = p[i]
    <2> SUFFICES ASSUME NEW i \in 1..Len(t) PROVE t[i] = p[i]
      OBVIOUS
    <2>1. SubSeq(t, 1, Len(t))[i] = t[i]
      BY DEF Name
    <2>2. SubSeq(p, 1, Len(t))[i] = p[i]
      BY <1>3, <1>4, <1>5 DEF Name
    <2> QED BY <1>5, <2>1, <2>2
  <1>7. Len(p) = Len(t) + 1 /\ p[Len(t) + 1] = ".pub"
    <2>1. Len(t) \in 0..Len(p)
      BY <1>3, <1>4, <1>5 DEF Name
    <2>2. /\ Len(After(p, Len(t))) = Len(p) - Len(t)
          /\ \A i \in 1..(Len(p) - Len(t)) : After(p, Len(t))[i] = p[Len(t) + i]
      BY <1>4, <2>1, AfterName
    <2>3. Len(p) - Len(t) = 1
      BY <1>1, <2>2
    <2>4. <<".pub">>[1] = p[Len(t) + 1]
      BY <1>1, <2>2, <2>3
    <2>5. Len(p) \in Nat
      BY <1>4 DEF Name
    <2> QED BY <1>3, <2>3, <2>4, <2>5
  <1> DEFINE a == SubSeq(h, 1, k - 1)
             b == a \o <<"-">>
             c == b \o t
             d == c \o <<".pub">>
  <1>8. a \in Name /\ Len(a) = k - 1 /\ \A i \in 1..(k - 1) : a[i] = h[i]
    BY <1>2, <1>3 DEF Name
  <1> HIDE DEF a
  <1>9. b \in Name /\ Len(b) = k /\ \A i \in 1..k : b[i] = h[i]
    <2>1. b \in Name /\ Len(b) = k
      BY <1>2, <1>3, <1>8, LiteralWords DEF Name
    <2>2. \A i \in 1..(k - 1) : b[i] = a[i]
      BY <1>2, <1>3, <1>8 DEF Name
    <2>3. b[k] = "-"
      BY <1>2, <1>3, <1>8 DEF Name
    <2> HIDE DEF b
    <2> QED BY <1>2, <1>3, <1>8, <2>1, <2>2, <2>3
  <1> HIDE DEF b
  <1>10. c \in Name /\ Len(c) = k + Len(t) /\ \A i \in 1..(k + Len(t)) : c[i] = h[i]
    <2>1. c \in Name /\ Len(c) = k + Len(t)
      BY <1>2, <1>3, <1>9, SMTT(30) DEF Name
    <2>2. \A i \in 1..k : c[i] = b[i]
      BY <1>2, <1>3, <1>9 DEF Name
    <2>3. \A i \in 1..Len(t) : c[k + i] = t[i]
      BY <1>2, <1>3, <1>9 DEF Name
    <2> HIDE DEF c
    <2> SUFFICES ASSUME NEW i \in 1..(k + Len(t)) PROVE c[i] = h[i]
      BY <2>1
    <2>4. CASE i <= k
      BY <1>2, <1>3, <1>9, <2>2, <2>4
    <2>5. CASE i > k
      <3>1. i - k \in 1..Len(t) /\ i = k + (i - k)
        BY <1>2, <1>3, <2>5
      <3>2. c[k + (i - k)] = t[i - k] /\ t[i - k] = p[i - k]
        BY <1>6, <2>3, <3>1
      <3>3. i - k \in 1..(Len(h) - k)
        BY <1>2, <1>3, <1>4, <1>7, <3>1
      <3>4. p[i - k] = h[k + (i - k)]
        BY <1>4, <3>3
      <3> QED BY <3>1, <3>2, <3>4
    <2> QED BY <1>2, <1>3, <2>4, <2>5
  <1> HIDE DEF c
  <1>11. d \in Name /\ Len(d) = Len(h) /\ \A i \in 1..Len(h) : d[i] = h[i]
    <2>1. d \in Name /\ Len(d) = k + Len(t) + 1
      <3> DEFINE e == <<".pub">>
      <3>1. e \in Name /\ Len(e) = 1
        BY LiteralWords, OneWord
      <3>2. d = c \o e
        OBVIOUS
      <3> HIDE DEF d, e
      <3>3. d \in Name /\ Len(d) = Len(c) + Len(e)
        BY <1>10, <3>1, <3>2, JoinNames
      <3> QED BY <1>10, <3>1, <3>3
    <2>2. \A i \in 1..(k + Len(t)) : d[i] = c[i]
      BY <1>2, <1>3, <1>10 DEF Name
    <2>3. d[k + Len(t) + 1] = ".pub"
      BY <1>2, <1>3, <1>10 DEF Name
    <2>4. h[k + (Len(t) + 1)] = ".pub" /\ Len(h) = k + Len(t) + 1
      <3>1. Len(h) = k + Len(t) + 1
        <4> DEFINE H == Len(h)
                   T == Len(t)
        <4>1. H \in Nat /\ T \in Nat /\ k \in 1..H /\ H - k = T + 1
          BY <1>2, <1>3, <1>4, <1>7
        <4> HIDE DEF H, T
        <4>2. H = k + T + 1
          BY <4>1
        <4> QED BY <4>2 DEF H, T
      <3>2. Len(t) + 1 \in 1..(Len(h) - k)
        BY <1>2, <1>3, <3>1
      <3>3. p[Len(t) + 1] = h[k + (Len(t) + 1)]
        BY <1>4, <3>2
      <3> QED BY <1>7, <3>1, <3>3
    <2> HIDE DEF d
    <2> QED BY <1>2, <1>3, <1>10, <2>1, <2>2, <2>3, <2>4
  <1>12. h = d
    BY <1>11, SameName
  <1>13. k - 1 \in 0..Len(h)
    BY <1>2, <1>3
  <1> QED BY <1>12, <1>13 DEF a, b, c, d

(* The names of a key pair agree up to their suffixes.                     *)
LEMMA PairNames ==
  ASSUME NEW pub \in Name, NEW sec \in Name, check_keyname_compliance(pub, sec)
  PROVE  Base(pub) = PubNameOf(sec)
  <1> DEFINE x == Base(pub)
             y == Base(sec)
             e == <<".pub">>
  <1>1. x \in Name /\ y \in Name
    BY BaseName
  <1>2. pub # NULL
    BY CommandAssumption DEF Name
  <1>3. Len(y) >= 2 /\ Len(x) = Len(y) /\ Last(x) = ".pub" /\ Front(x) = Front(y)
    BY <1>2 DEF check_keyname_compliance, SecName, Stem
  <1>4. e \in Name /\ Len(e) = 1 /\ e[1] = ".pub"
    BY LiteralWords, OneWord
  <1>5. PubNameOf(sec) = Front(y) \o e
    BY DEF PubNameOf, Stem
  <1> HIDE DEF x, y, e
  <1>6. /\ Front(x) \in Name /\ Len(Front(x)) = Len(x) - 1
        /\ \A i \in 1..(Len(x) - 1) : Front(x)[i] = x[i]
    BY <1>1, <1>3 DEF Name, Front
  <1>7. x[Len(x)] = ".pub"
    BY <1>3 DEF Last
  <1>8. /\ Front(x) \o e \in Name /\ Len(Front(x) \o e) = Len(Front(x)) + Len(e)
        /\ \A i \in 1..Len(Front(x)) : (Front(x) \o e)[i] = Front(x)[i]
        /\ \A i \in 1..Len(e) : (Front(x) \o e)[Len(Front(x)) + i] = e[i]
    BY <1>4, <1>6, JoinNames
  <1> DEFINE z == Front(x) \o e
             n == Len(x)
  <1>9. n \in Nat /\ n >= 2
    BY <1>1, <1>3 DEF Name
  <1>10. /\ z \in Name /\ Len(z) = n
         /\ \A i \in 1..(n - 1) : z[i] = x[i]
         /\ z[n] = x[n]
    <2>1. (n - 1) + 1 = n
      BY <1>9
    <2>2. Len(Front(x)) = n - 1
      BY <1>6
    <2>3. z[(n - 1) + 1] = e[1]
      BY <1>4, <1>8, <2>2
    <2> QED BY <1>4, <1>6, <1>7, <1>8, <2>1, <2>2, <2>3
  <1> HIDE DEF z, n
  <1>11. \A i \in 1..n : z[i] = x[i]
    BY <1>9, <1>10
  <1>12. z = x
    BY <1>1, <1>10, <1>11, SameName DEF n
  <1> QED BY <1>3, <1>5, <1>12 DEF x, z

LEMMA StemIsName ==
  ASSUME NEW y \in Name
  PROVE  Stem(y) \in Name
  <1> DEFINE n == Len(y)
  <1>1. n \in Nat
    BY DEF Name
  <1>2. SubSeq(y, 1, n - 1) \in Name
    <2>1. CASE n = 0
      <3>1. SubSeq(y, 1, n - 1) = << >>
        BY <2>1 DEF Name
      <3> QED BY <3>1 DEF Name
    <2>2. CASE n # 0
      BY <1>1, <2>2 DEF Name
    <2> QED BY <2>1, <2>2
  <1> QED BY <1>2 DEF Stem, Front

LEMMA PubNameIsName ==
  ASSUME NEW sec \in Name
  PROVE  PubNameOf(sec) \in Name
  <1>1. Stem(Base(sec)) \in Name
    BY BaseName, StemIsName
  <1> HIDE DEF Stem
  <1> QED BY <1>1, JoinNames, LiteralWords DEF PubNameOf

(* Every option that main takes holds a name, a comment or nothing.        *)
LEMMA AskedType ==
  ASSUME NEW l \in Lines, Asked[l] # NULL
  PROVE  Asked[l] \in OptType
  <1> DEFINE v == Chosen(l.opts)
             N == Len(l.opts)
  <1>1. Asked[l] = [v EXCEPT !.sig = IF DefaultSig(v) THEN v.msg \o <<".sig">> ELSE @]
    BY DEF Asked
  <1>2. N \in Nat /\ \A k \in 1..N : l.opts[k][1] \in {"c", "m", "p", "s", "t", "x"} => l.opts[k][2] \in Name
    BY CommandAssumption DEF Name
  <1>3. ASSUME NEW flag \in {"c", "m", "p", "s", "t", "x"}, NEW default \in Optional
        PROVE  /\ Argument(l.opts, flag, default) \in Optional
               /\ default \in Name => Argument(l.opts, flag, default) \in Name
    <2>1. CASE Given(l.opts, flag)
      <3>1. Latest(l.opts, flag) \in 1..N /\ l.opts[Latest(l.opts, flag)][1] = flag
        BY <1>2, <2>1, LatestIs
      <3>2. l.opts[Latest(l.opts, flag)][2] \in Name
        BY <1>2, <3>1
      <3> QED BY <2>1, <3>2 DEF Argument, Optional
    <2>2. CASE ~ Given(l.opts, flag)
      BY <2>2 DEF Argument
    <2> QED BY <2>1, <2>2
  <1> DEFINE c == Argument(l.opts, "c", NoOptions.comment)
             m == Argument(l.opts, "m", NULL)
             p == Argument(l.opts, "p", NULL)
             s == Argument(l.opts, "s", NULL)
             t == Argument(l.opts, "t", NULL)
             x == Argument(l.opts, "x", NULL)
             verb == IF Given(l.opts, "C") THEN "CHECK" ELSE IF Given(l.opts, "G") THEN "GENERATE"
                     ELSE IF Given(l.opts, "S") THEN "SIGN" ELSE IF Given(l.opts, "V") THEN "VERIFY" ELSE "NONE"
             e == Given(l.opts, "e")
             z == Given(l.opts, "z")
             n == Given(l.opts, "n")
  <1>4. c \in Name
    <2>1. NoOptions.comment \in Name
      BY LiteralWords DEF NoOptions
    <2> QED BY <1>3, <2>1 DEF Optional
  <1>5. m \in Optional /\ p \in Optional /\ s \in Optional /\ t \in Optional /\ x \in Optional
    BY <1>3 DEF Optional
  <1>6. verb \in Verbs \cup {"NONE"}
    BY DEF Verbs
  <1>7. e \in BOOLEAN /\ z \in BOOLEAN /\ n \in BOOLEAN
    BY DEF Given
  <1>8. v = [verb |-> verb, embedded |-> e, gzip |-> z, none |-> n, comment |-> c, msg |-> m, pub |-> p, sec |-> s,
             sig |-> x, keytype |-> t]
    BY Zenon DEF Chosen
  <1> HIDE DEF verb, e, z, n, c, m, p, s, t, x, v
  <1>9. v \in OptType /\ v.msg = m /\ v.sig = x
    BY <1>4, <1>5, <1>6, <1>7, <1>8 DEF OptType
  <1>10. DefaultSig(v) => v.msg \o <<".sig">> \in Optional
    <2>1. DefaultSig(v) => m \in Name
      BY <1>5, <1>9 DEF DefaultSig, Optional
    <2> QED BY <1>9, <2>1, JoinNames, LiteralWords DEF Optional
  <1> DEFINE w == IF DefaultSig(v) THEN v.msg \o <<".sig">> ELSE v.sig
  <1>11. w \in Optional
    BY <1>5, <1>9, <1>10
  <1>12. Asked[l] = [v EXCEPT !.sig = w]
    BY <1>1, <1>9
  <1> HIDE DEF w
  <1> QED BY <1>9, <1>11, <1>12 DEF OptType

-----------------------------------------------------------------------------
(* The steps of a verb *)

(* The steps of each verb are in order, and so is what is left of them.    *)
LEMMA StepsAre ==
  ASSUME NEW o, o.verb \in Verbs
  PROVE  StepsLeft(Steps(o), o)
  <1>1. ASSUME NEW a \in StepNames, NEW b \in StepNames, NEW c \in StepNames,
               Rank[a] < Rank[b], Rank[b] < Rank[c], c # "seckey", {a, b, c} \subseteq MaySteps(o)
        PROVE  StepsLeft(<<a, b, c>>, o)
    <2> DEFINE t == <<a, b, c>>
    <2>1. t \in Seq(StepNames) /\ Len(t) = 3 /\ t[1] = a /\ t[2] = b /\ t[3] = c
      OBVIOUS
    <2>2. \A x \in StepNames : Rank[x] \in Nat
      BY DEF Rank
    <2> HIDE DEF t
    <2>3. Ordered(t)
      BY <1>1, <2>1, <2>2 DEF Ordered
    <2>4. \A i \in 1..Len(t) : t[i] \in MaySteps(o)
      BY <1>1, <2>1
    <2> QED BY <1>1, <2>1, <2>3, <2>4 DEF StepsLeft, t
  <1>2. Rank["message"] = 1 /\ Rank["truncate"] = 2 /\ Rank["sigmsg"] = 2 /\ Rank["seckey"] = 3 /\ Rank["kdf"] = 4
        /\ Rank["newsig"] = 5 /\ Rank["newsec"] = 5 /\ Rank["newpub"] = 6 /\ Rank["pubkey"] = 7
        /\ Rank["checksums"] = 8 /\ Rank["output"] = 8
    BY DEF Rank, StepNames
  <1>3. CASE o.verb = "CHECK"
    <2>1. Steps(o) = <<"sigmsg", "pubkey", "checksums">> /\ MaySteps(o) = {"sigmsg", "pubkey", "checksums"}
      BY <1>3 DEF Steps, MaySteps
    <2> QED BY <1>1, <1>2, <2>1 DEF StepNames
  <1>4. CASE o.verb = "GENERATE"
    <2>1. Steps(o) = <<"kdf", "newsec", "newpub">> /\ MaySteps(o) = {"kdf", "newsec", "newpub"}
      BY <1>4 DEF Steps, MaySteps
    <2> QED BY <1>1, <1>2, <2>1 DEF StepNames
  <1>5. CASE o.verb = "VERIFY"
    <2>1. {"message", "sigmsg", "pubkey"} \subseteq MaySteps(o)
      BY <1>5 DEF MaySteps
    <2>2. CASE o.embedded \/ o.gzip
      <3>1. Steps(o) = <<"sigmsg", "pubkey", "output">> /\ "output" \in MaySteps(o)
        BY <1>5, <2>2 DEF Steps, MaySteps
      <3>2. /\ "sigmsg" \in StepNames /\ "pubkey" \in StepNames /\ "output" \in StepNames
            /\ {"sigmsg", "pubkey", "output"} \subseteq MaySteps(o) /\ "output" # "seckey"
            /\ Rank["sigmsg"] < Rank["pubkey"] /\ Rank["pubkey"] < Rank["output"]
        BY <1>2, <2>1, <3>1 DEF StepNames
      <3>3. StepsLeft(<<"sigmsg", "pubkey", "output">>, o)
        BY <1>1, <3>2
      <3> QED BY <3>1, <3>3
    <2>3. CASE ~ o.embedded /\ ~ o.gzip
      <3>1. Steps(o) = <<"message", "sigmsg", "pubkey">>
        BY <1>5, <2>3 DEF Steps
      <3>2. /\ "message" \in StepNames /\ "sigmsg" \in StepNames /\ "pubkey" \in StepNames
            /\ {"message", "sigmsg", "pubkey"} \subseteq MaySteps(o) /\ "pubkey" # "seckey"
            /\ Rank["message"] < Rank["sigmsg"] /\ Rank["sigmsg"] < Rank["pubkey"]
        BY <1>2, <2>1 DEF StepNames
      <3>3. StepsLeft(<<"message", "sigmsg", "pubkey">>, o)
        BY <1>1, <3>2
      <3> QED BY <3>1, <3>3
    <2> QED BY <2>2, <2>3
  <1>6. CASE o.verb = "SIGN"
    <2> DEFINE t == Steps(o)
    <2>1. MaySteps(o) = {"message", "truncate", "seckey", "kdf", "newsig"}
      BY <1>6 DEF MaySteps
    <2>2. CASE o.gzip
      <3>1. t = <<"message", "truncate", "seckey", "kdf", "newsig">>
        BY <1>6, <2>2 DEF Steps
      <3>2. /\ t \in Seq(StepNames) /\ Len(t) = 5
            /\ t[1] = "message" /\ t[2] = "truncate" /\ t[3] = "seckey" /\ t[4] = "kdf" /\ t[5] = "newsig"
        BY <3>1 DEF StepNames
      <3> HIDE DEF t
      <3>3. Ordered(t)
        BY <1>2, <3>2 DEF Ordered
      <3>4. \A i \in 1..Len(t) : t[i] \in MaySteps(o)
        BY <2>1, <3>2
      <3> QED BY <3>2, <3>3, <3>4 DEF StepsLeft, t
    <2>3. CASE ~ o.gzip
      <3>1. t = <<"message", "seckey", "kdf", "newsig">>
        BY <1>6, <2>3 DEF Steps
      <3>2. /\ t \in Seq(StepNames) /\ Len(t) = 4
            /\ t[1] = "message" /\ t[2] = "seckey" /\ t[3] = "kdf" /\ t[4] = "newsig"
        BY <3>1 DEF StepNames
      <3> HIDE DEF t
      <3>3. Ordered(t)
        BY <1>2, <3>2 DEF Ordered
      <3>4. \A i \in 1..Len(t) : t[i] \in MaySteps(o)
        BY <2>1, <3>2
      <3> QED BY <3>2, <3>3, <3>4 DEF StepsLeft, t
    <2> QED BY <2>2, <2>3
  <1> QED BY <1>3, <1>4, <1>5, <1>6 DEF Verbs

LEMMA TailLeft ==
  ASSUME NEW steps, NEW o, StepsLeft(steps, o), steps # << >>
  PROVE  /\ StepsLeft(Tail(steps), o)
         /\ Head(steps) \in MaySteps(o)
         /\ Head(steps) = "seckey" => Tail(steps) # << >>
         /\ \A i \in 1..Len(Tail(steps)) : Rank[Tail(steps)[i]] > Rank[Head(steps)]
  <1> DEFINE t == Tail(steps)
             n == Len(steps)
  <1>1. steps \in Seq(StepNames) /\ n \in Nat /\ n # 0
    BY DEF StepsLeft
  <1>2. t \in Seq(StepNames) /\ Len(t) = n - 1 /\ \A i \in 1..(n - 1) : t[i] = steps[i + 1]
    BY <1>1
  <1>3. Head(steps) = steps[1]
    BY <1>1
  <1>4. Ordered(steps) /\ steps[n] # "seckey" /\ \A i \in 1..n : steps[i] \in MaySteps(o)
    BY DEF StepsLeft
  <1>5. t # << >> => Len(t) # 0
    BY <1>2
  <1>6. \A x \in StepNames : Rank[x] \in Nat
    BY DEF Rank
  <1>7. \A i \in 1..n : steps[i] \in StepNames
    BY <1>1
  <1> HIDE DEF t, n
  <1>8. \A i, j \in 1..n : i < j => Rank[steps[i]] < Rank[steps[j]]
    BY <1>4 DEF Ordered, n
  <1>9. Ordered(t)
    <2> SUFFICES ASSUME NEW i \in 1..Len(t), NEW j \in 1..Len(t), i < j PROVE Rank[t[i]] < Rank[t[j]]
      BY DEF Ordered
    <2>1. i + 1 \in 1..n /\ j + 1 \in 1..n /\ i + 1 < j + 1 /\ t[i] = steps[i + 1] /\ t[j] = steps[j + 1]
      BY <1>1, <1>2
    <2> QED BY <1>8, <2>1
  <1>10. \A i \in 1..Len(t) : t[i] \in MaySteps(o) /\ Rank[t[i]] > Rank[steps[1]]
    <2> SUFFICES ASSUME NEW i \in 1..Len(t) PROVE t[i] \in MaySteps(o) /\ Rank[t[i]] > Rank[steps[1]]
      OBVIOUS
    <2>1. i + 1 \in 1..n /\ 1 \in 1..n /\ 1 < i + 1 /\ t[i] = steps[i + 1]
      BY <1>1, <1>2
    <2>2. Rank[steps[1]] < Rank[steps[i + 1]] /\ Rank[steps[1]] \in Nat /\ Rank[steps[i + 1]] \in Nat
      BY <1>6, <1>7, <1>8, <2>1
    <2> QED BY <1>4, <2>1, <2>2
  <1>11. t # << >> => t[Len(t)] # "seckey"
    BY <1>1, <1>2, <1>4, <1>5
  <1>12. Head(steps) = "seckey" => t # << >>
    <2>1. Head(steps) = "seckey" => n # 1
      BY <1>3, <1>4
    <2>2. Head(steps) = "seckey" => Len(t) # 0
      BY <1>1, <1>2, <2>1
    <2>3. t = << >> => Len(t) = 0
      OBVIOUS
    <2> QED BY <2>2, <2>3
  <1> QED BY <1>1, <1>2, <1>3, <1>4, <1>9, <1>10, <1>11, <1>12 DEF StepsLeft, t

(* rpath is always kept, and with it the right to open.                    *)
LEMMA OpenIsKept ==
  ASSUME NEW o, o.verb \in Verbs
  PROVE  /\ "OPEN" \notin waive_flags(Promises) \cup waive_flags(PromisesOf(o))
         /\ {"stdio", "rpath"} \subseteq PromisesOf(o) /\ PromisesOf(o) \subseteq Promises
  <1>1. "rpath" \in Promises /\ {"stdio", "rpath"} \subseteq PromisesOf(o) /\ PromisesOf(o) \subseteq Promises
    BY DEF PromisesOf, ReadPromises, Promises
  <1>2. "OPEN" \in flag_table("rpath")
    BY DEF flag_table
  <1>3. ASSUME NEW P, "rpath" \in P PROVE "OPEN" \notin waive_flags(P)
    <2>1. flag_table("rpath") \subseteq UNION {flag_table(p) : p \in P}
      BY <1>3
    <2> QED BY <1>2, <2>1 DEF waive_flags
  <1> QED BY <1>1, <1>3

-----------------------------------------------------------------------------
(* The invariant *)

(* Fields of the records.                                                  *)
LEMMA OptFields ==
  ASSUME NEW o \in OptType
  PROVE  /\ o.verb \in Verbs \cup {"NONE"} /\ o.comment \in Name /\ o.msg \in Optional /\ o.pub \in Optional
         /\ o.sec \in Optional /\ o.sig \in Optional /\ o.keytype \in Optional
         /\ o.embedded \in BOOLEAN /\ o.gzip \in BOOLEAN /\ o.none \in BOOLEAN
  BY DEF OptType

LEMMA FileFields ==
  ASSUME NEW f \in FileType
  PROVE  f.comment \in Name /\ f.pair \in Optional /\ f.rounds \in BOOLEAN
  BY DEF FileType, Name, Optional

LEMMA FileIs ==
  ASSUME NEW kind \in {"sec", "pub", "sig", "gz", "other"}, NEW c \in Name, NEW p \in Optional, NEW r \in BOOLEAN
  PROVE  /\ [kind |-> kind, comment |-> c, pair |-> p, rounds |-> r] \in FileType
  BY DEF FileType, Name, Optional

LEMMA NullIsNoName == NULL \notin Name
  BY CommandAssumption DEF Name

LEMMA ReadNeeds ==
  ASSUME NEW path
  PROVE  Needs(Call("read", path)) \subseteq {"stdio", "rpath"}
  BY DEF Needs, Call

(* The shell, before the first command.                                    *)
LEMMA CommandStarts ==
  ASSUME Init
  PROVE  CommandInv
  <1>1. opt = NoOptions /\ NoOptions \in OptType
    <2>1. <<"signify">> \in Name
      BY LiteralWords
    <2> DEFINE c == <<"signify">>
    <2>2. NoOptions = [verb |-> "NONE", embedded |-> FALSE, gzip |-> FALSE, none |-> FALSE, comment |-> c,
                       msg |-> NULL, pub |-> NULL, sec |-> NULL, sig |-> NULL, keytype |-> NULL]
      BY DEF NoOptions
    <2> HIDE DEF c
    <2>3. c \in Name
      BY <2>1 DEF c
    <2> QED BY <2>2, <2>3 DEF Init, OptType, Optional
  <1>2. disk = Files /\ comment = << >> /\ pair = NULL /\ key = NULL /\ pc = "shell"
    BY DEF Init
  <1>3. pledged = Promises /\ waived = {} /\ call = NoCall
    BY DEF Init
  <1>4. \A f \in DOMAIN disk : disk[f] \in FileType /\ disk[f].pair = NULL
    BY <1>2, CommandAssumption
  <1>5. << >> \in Name
    BY DEF Name
  <1>6. TypesInv
    BY <1>1, <1>2, <1>4, <1>5 DEF TypesInv, Optional
  <1>7. TodoInv /\ PledgeInv /\ KeyInv
    BY <1>2, <1>3 DEF TodoInv, PledgeInv, KeyInv
  <1>8. PairInv
    BY <1>2, <1>4 DEF PairInv, Origin
  <1> QED BY <1>6, <1>7, <1>8 DEF CommandInv

(* A process that ends leaves nothing but its files.                       *)
LEMMA ExitKeeps ==
  ASSUME CommandInv, NEW code \in {"exit0", "exit1"}, Exit(code), disk' = disk
  PROVE  CommandInv'
  <1>1. /\ pc' = code /\ opt' = NoOptions /\ comment' = << >> /\ pair' = NULL /\ key' = NULL
        /\ call' = NoCall /\ pledged' = Promises /\ waived' = {}
    BY DEF Exit
  <1>2. NoOptions \in OptType /\ << >> \in Name
    <2> DEFINE c == <<"signify">>
    <2>1. c \in Name
      BY LiteralWords
    <2>2. NoOptions = [verb |-> "NONE", embedded |-> FALSE, gzip |-> FALSE, none |-> FALSE, comment |-> c,
                       msg |-> NULL, pub |-> NULL, sec |-> NULL, sig |-> NULL, keytype |-> NULL]
      BY DEF NoOptions
    <2> HIDE DEF c
    <2> QED BY <2>1, <2>2 DEF OptType, Optional, Name
  <1>3. TypesInv'
    BY <1>1, <1>2 DEF CommandInv, TypesInv, Optional
  <1>4. TodoInv' /\ PledgeInv' /\ KeyInv'
    BY <1>1 DEF TodoInv, PledgeInv, KeyInv
  <1>5. PairInv'
    BY <1>1 DEF CommandInv, PairInv
  <1> QED BY <1>3, <1>4, <1>5 DEF CommandInv

LEMMA RefuseKeeps ==
  ASSUME CommandInv, Refuse
  PROVE  CommandInv'
  BY ExitKeeps DEF Refuse

LEMMA StartKeeps ==
  ASSUME CommandInv, Start
  PROVE  CommandInv'
  <1>1. pc \notin {"verb", "run"}
    BY DEF Start
  <1>2. PICK l \in Lines :
          IF Asked[l] = NULL THEN Exit("exit1") /\ UNCHANGED disk
          ELSE /\ Pledge(Promises)
               /\ opt' = Asked[l] /\ pc' = "verb"
               /\ UNCHANGED <<disk, todo, comment, pair, key>>
    BY DEF Start
  <1>3. CASE Asked[l] = NULL
    BY <1>2, <1>3, ExitKeeps
  <1>4. CASE Asked[l] # NULL
    <2>1. /\ Pledge(Promises) /\ opt' = Asked[l] /\ pc' = "verb" /\ disk' = disk /\ comment' = comment
          /\ pair' = pair /\ key' = key
      BY <1>2, <1>4
    <2>2. opt' \in OptType
      BY <1>4, <2>1, AskedType
    <2>3. pledged = Promises /\ waived = {} /\ key = NULL /\ pair = NULL
      BY <1>1 DEF CommandInv, PledgeInv, KeyInv
    <2>4. TypesInv' /\ PairInv'
      BY <2>1, <2>2 DEF CommandInv, TypesInv, PairInv
    <2>5. PledgeInv'
      BY <2>1, <2>3 DEF Pledge, PledgeInv
    <2>6. TodoInv' /\ KeyInv'
      BY <2>1, <2>3 DEF TodoInv, KeyInv
    <2> QED BY <2>4, <2>5, <2>6 DEF CommandInv
  <1> QED BY <1>3, <1>4

(* The verbs begin with the checks of their options.                       *)
LEMMA RunUnpledgedKeeps ==
  ASSUME CommandInv, RunUnpledged
  PROVE  CommandInv'
  <1> DEFINE Bad ==
        \/ opt.sec = NULL
        \/ opt.verb = "GENERATE" /\ (opt.pub = NULL \/ ~ check_keyname_compliance(opt.pub, opt.sec))
        \/ opt.verb = "SIGN" /\ opt.msg = NULL
  <1>1. CASE Bad
    BY <1>1, RefuseKeeps DEF RunUnpledged
  <1>2. CASE ~ Bad
    <2>1. /\ pc = "verb" /\ opt.verb \in {"GENERATE", "SIGN"}
          /\ todo' = Steps(opt) /\ pc' = "run"
          /\ UNCHANGED <<disk, opt, comment, pair, key, call, pledged, waived, commands>>
      BY <1>2 DEF RunUnpledged
    <2>2. /\ opt.sec # NULL
          /\ opt.verb = "GENERATE" => opt.pub # NULL /\ check_keyname_compliance(opt.pub, opt.sec)
      BY <1>2
    <2> HIDE DEF Bad
    <2>3. opt.verb \in Verbs /\ PromisesOf(opt) = Promises
      BY <2>1 DEF Verbs, PromisesOf
    <2>4. pledged = Promises /\ waived = waive_flags(Promises) /\ call = Call("pledge", Dash)
      BY <2>1 DEF CommandInv, PledgeInv
    <2>5. key = NULL /\ pair = NULL
      BY <2>1 DEF CommandInv, KeyInv
    <2>6. TypesInv'
      BY <2>1 DEF CommandInv, TypesInv
    <2>7. TodoInv'
      BY <2>1, <2>3, StepsAre DEF TodoInv
    <2>8. PledgeInv'
      <3>1. Needs(call) = {"stdio"} /\ "stdio" \in Promises
        BY <2>4 DEF Needs, Call, Promises
      <3>2. PromisesOf(opt') = Promises /\ waived' = waive_flags(Promises) /\ pledged' = Promises /\ call' = call
        BY <2>1, <2>3, <2>4
      <3>3. opt'.verb \in Verbs /\ opt'.verb # "VERIFY" /\ pc' = "run"
        BY <2>1, <2>3
      <3> HIDE DEF Needs
      <3> QED BY <3>1, <3>2, <3>3 DEF PledgeInv
    <2>9. PairInv'
      BY <2>1, <2>2 DEF CommandInv, PairInv
    <2>10. KeyInv'
      BY <2>1, <2>5 DEF KeyInv
    <2> QED BY <2>6, <2>7, <2>8, <2>9, <2>10 DEF CommandInv
  <1> QED BY <1>1, <1>2

LEMMA RunPledgedKeeps ==
  ASSUME CommandInv, RunPledged
  PROVE  CommandInv'
  <1> DEFINE Bad ==
        \/ ~ CanPledge(ReadPromises(opt))
        \/ opt.verb = "CHECK" /\ opt.sig = NULL
        \/ opt.verb = "VERIFY" /\ ~ opt.gzip /\ opt.msg = NULL
             o == IF opt.verb = "VERIFY" /\ opt.gzip
                    THEN [opt EXCEPT !.sig = IF @ = NULL THEN Dash ELSE @, !.msg = IF @ = NULL THEN Dash ELSE @]
                    ELSE opt
  <1>1. CASE Bad
    BY <1>1, RefuseKeeps DEF RunPledged
  <1>2. CASE ~ Bad
    <2>1. /\ pc = "verb" /\ opt.verb \in {"CHECK", "VERIFY"}
          /\ Pledge(ReadPromises(opt)) /\ opt' = o /\ todo' = Steps(opt) /\ pc' = "run"
          /\ UNCHANGED <<disk, comment, pair, key, commands>>
      BY <1>2 DEF RunPledged
    <2>2. opt.verb = "VERIFY" /\ ~ opt.gzip => opt.msg # NULL
      BY <1>2
    <2> HIDE DEF Bad
    <2>3. opt \in OptType /\ Dash \in Name /\ Dash # NULL
      BY LiteralWords, NullIsNoName DEF CommandInv, TypesInv, Dash
    <2>4. /\ o \in OptType /\ o.verb = opt.verb /\ o.embedded = opt.embedded /\ o.gzip = opt.gzip
          /\ o.msg = opt.msg \/ (opt.msg = NULL /\ o.msg = Dash)
          /\ o.verb = "VERIFY" => o.msg # NULL
      <3>1. CASE opt.verb = "VERIFY" /\ opt.gzip
        <4> DEFINE x == IF opt.sig = NULL THEN Dash ELSE opt.sig
                   m == IF opt.msg = NULL THEN Dash ELSE opt.msg
        <4>1. x \in Optional /\ m \in Optional /\ m # NULL
          BY <2>3, OptFields DEF Optional
        <4>2. m = opt.msg \/ (opt.msg = NULL /\ m = Dash)
          OBVIOUS
        <4>3. o = [opt EXCEPT !.sig = x, !.msg = m]
          BY <3>1
        <4> HIDE DEF x, m, o
        <4> QED BY <2>3, <4>1, <4>2, <4>3 DEF OptType
      <3>2. CASE ~ (opt.verb = "VERIFY" /\ opt.gzip)
        <4>1. o = opt
          BY <3>2
        <4>2. opt.verb = "VERIFY" => opt.msg # NULL
          BY <2>2, <3>2
        <4> HIDE DEF o
        <4> QED BY <2>3, <4>1, <4>2
      <3> QED BY <3>1, <3>2
    <2> HIDE DEF o
    <2>5. opt.verb \in Verbs /\ o.verb \notin {"GENERATE", "SIGN"}
      BY <2>1, <2>4 DEF Verbs
    <2>6. PromisesOf(o) = ReadPromises(opt)
      <3>1. WillCreate(o) <=> WillCreate(opt)
        BY <2>4 DEF WillCreate
      <3> QED BY <2>4, <2>5, <3>1 DEF PromisesOf, ReadPromises
    <2>7. pledged = Promises /\ waived = waive_flags(Promises)
      BY <2>1 DEF CommandInv, PledgeInv
    <2>8. key = NULL /\ pair = NULL
      BY <2>1 DEF CommandInv, KeyInv
    <2>9. TypesInv'
      BY <2>1, <2>4 DEF CommandInv, TypesInv
    <2>10. TodoInv'
      <3>1. MaySteps(o) = MaySteps(opt)
        BY <2>4 DEF MaySteps
      <3>2. StepsLeft(Steps(opt), opt)
        BY <2>5, StepsAre
      <3>3. StepsLeft(Steps(opt), o)
        BY <3>1, <3>2 DEF StepsLeft
      <3> QED BY <2>1, <3>3 DEF TodoInv
    <2>11. PledgeInv'
      <3>1. /\ pledged' = PromisesOf(o) /\ waived' = waive_flags(Promises) \cup waive_flags(PromisesOf(o))
            /\ call' = Call("pledge", Dash)
        BY <2>1, <2>6, <2>7 DEF Pledge
      <3>2. Needs(call') = {"stdio"}
        BY <3>1 DEF Needs, Call
      <3>3. "stdio" \in PromisesOf(o)
        BY <2>4, <2>5, OpenIsKept
      <3>4. opt' = o /\ pc' = "run" /\ o.verb \in Verbs /\ (o.verb = "VERIFY" => o.msg # NULL)
        BY <2>1, <2>4, <2>5
      <3> QED BY <3>1, <3>2, <3>3, <3>4 DEF PledgeInv
    <2>12. PairInv'
      BY <2>1, <2>5 DEF CommandInv, PairInv
    <2>13. KeyInv'
      BY <2>1, <2>8 DEF KeyInv
    <2> QED BY <2>9, <2>10, <2>11, <2>12, <2>13 DEF CommandInv
  <1> QED BY <1>1, <1>2

(* While a verb runs its options and promises stay.                        *)
LEMMA RunKeeps ==
  ASSUME CommandInv, pc = "run", UNCHANGED <<opt, pledged, waived, pc>>,
         StepsLeft(todo', opt), Needs(call') \subseteq PromisesOf(opt)
  PROVE  TodoInv' /\ PledgeInv'
  <1>1. /\ opt.verb \in Verbs
        /\ pledged = PromisesOf(opt) /\ waived = waive_flags(Promises) \cup waive_flags(PromisesOf(opt))
        /\ opt.verb = "VERIFY" => opt.msg # NULL
    BY DEF CommandInv, PledgeInv
  <1>2. TodoInv'
    BY DEF TodoInv
  <1>3. PledgeInv'
    <2>1. PromisesOf(opt') = PromisesOf(opt)
      OBVIOUS
    <2> HIDE DEF PromisesOf
    <2> QED BY <1>1, <2>1 DEF PledgeInv
  <1> QED BY <1>2, <1>3

(* A step that leaves what is known of the key and of the signature.       *)
LEMMA ContinueKeeps ==
  ASSUME CommandInv, pc = "run", todo # << >>, Continue, UNCHANGED <<comment, pair, key>>,
         \A f \in DOMAIN disk' : disk'[f] \in FileType /\ Origin(f, disk'[f]),
         Needs(call') \subseteq PromisesOf(opt)
  PROVE  CommandInv'
  <1>1. todo' = Tail(todo) /\ UNCHANGED <<opt, pledged, waived, pc>>
    BY DEF Continue
  <1>2. StepsLeft(todo, opt)
    BY DEF CommandInv, TodoInv
  <1>3. StepsLeft(todo', opt)
    BY <1>1, <1>2, TailLeft
  <1>4. TodoInv' /\ PledgeInv'
    BY <1>1, <1>3, RunKeeps
  <1>5. TypesInv'
    BY <1>1 DEF CommandInv, TypesInv
  <1>6. PairInv'
    BY <1>1 DEF CommandInv, PairInv
  <1>7. KeyInv'
    <2> SUFFICES ASSUME key # NULL
                 PROVE  key = KeyPath(opt, comment) /\ \A i \in 1..Len(todo') : Rank[todo'[i]] > Rank["pubkey"]
      BY <1>1 DEF KeyInv
    <2>1. key = KeyPath(opt, comment) /\ \A i \in 1..Len(todo) : Rank[todo[i]] > Rank["pubkey"]
      BY DEF CommandInv, KeyInv
    <2>2. todo \in Seq(StepNames)
      BY <1>2 DEF StepsLeft
    <2>3. ASSUME NEW i \in 1..Len(Tail(todo)) PROVE Tail(todo)[i] = todo[i + 1] /\ i + 1 \in 1..Len(todo)
      BY <2>2
    <2> QED BY <1>1, <2>1, <2>3
  <1> QED BY <1>4, <1>5, <1>6, <1>7 DEF CommandInv

LEMMA QuietKeeps ==
  ASSUME CommandInv, pc = "run", todo # << >>, Continue, UNCHANGED <<disk, comment, pair, key>>,
         Needs(call') \subseteq PromisesOf(opt)
  PROVE  CommandInv'
  <1>1. \A f \in DOMAIN disk' : disk'[f] \in FileType /\ Origin(f, disk'[f])
    BY DEF CommandInv, TypesInv, PairInv
  <1> QED BY <1>1, ContinueKeeps

LEMMA PutKeeps ==
  ASSUME CommandInv, pc = "run", todo # << >>, Continue, UNCHANGED <<comment, pair, key>>,
         NEW name, NEW d \in FileType, Origin(name, d), Put(name, d),
         Needs(call') \subseteq PromisesOf(opt)
  PROVE  CommandInv'
  <1>1. ASSUME NEW f \in DOMAIN disk'
        PROVE  (f \in DOMAIN disk /\ disk'[f] = disk[f]) \/ (f = name /\ disk'[f] = d)
    <2>1. CASE name = Dash
      BY <2>1 DEF Put
    <2>2. CASE name # Dash
      <3>1. disk' = [n \in DOMAIN disk \cup {name} |-> IF n = name THEN d ELSE disk[n]]
        BY <2>2 DEF Put
      <3> QED BY <3>1
    <2> QED BY <2>1, <2>2
  <1>2. \A f \in DOMAIN disk : disk[f] \in FileType /\ Origin(f, disk[f])
    BY DEF CommandInv, TypesInv, PairInv
  <1>3. \A f \in DOMAIN disk' : disk'[f] \in FileType /\ Origin(f, disk'[f])
    BY <1>1, <1>2, Zenon
  <1> QED BY <1>3, ContinueKeeps

(* What a step may do to its promises.                                     *)
(* The promises that a verb keeps allow its reading, and all of it if it is*)
(* not one of those that only verify.                                      *)
LEMMA MayRead ==
  ASSUME CommandInv, pc = "run", NEW path
  PROVE  Needs(Call("read", path)) \subseteq PromisesOf(opt)
  <1>1. opt.verb \in Verbs
    BY DEF CommandInv, PledgeInv
  <1>2. {"stdio", "rpath"} \subseteq PromisesOf(opt)
    BY <1>1, OpenIsKept
  <1> QED BY <1>2, ReadNeeds

LEMMA MayAll ==
  ASSUME CommandInv, At("truncate") \/ At("seckey") \/ At("kdf") \/ At("newsig") \/ At("newsec") \/ At("newpub")
  PROVE  PromisesOf(opt) = Promises /\ opt.verb \in {"GENERATE", "SIGN"}
  <1>1. pc = "run" /\ todo # << >>
    BY DEF At
  <1>2. Head(todo) \in MaySteps(opt) /\ opt.verb \in Verbs
    BY <1>1, TailLeft DEF CommandInv, TodoInv, PledgeInv
  <1>3. Head(todo) \in {"truncate", "seckey", "kdf", "newsig", "newsec", "newpub"}
    BY DEF At
  <1>4. opt.verb \in {"GENERATE", "SIGN"}
    BY <1>2, <1>3 DEF MaySteps, Verbs
  <1> QED BY <1>4 DEF PromisesOf

LEMMA NeedsPromised ==
  ASSUME NEW c
  PROVE  Needs(c) \subseteq Promises
  BY DEF Needs, Promises

-----------------------------------------------------------------------------
(* Each step *)

(* What is read from a name is a file, with the origin of a file of that   *)
(* name, or a foreign one.                                                 *)
LEMMA ContentIs ==
  ASSUME CommandInv, NEW name, FileExists(name), NEW f \in Content(name)
  PROVE  /\ f \in FileType
         /\ f.pair # NULL => \E g \in DOMAIN disk : f = disk[g] /\ Origin(g, f) /\ (name # Dash => g = name)
  <1>1. \A g \in DOMAIN disk : disk[g] \in FileType /\ Origin(g, disk[g])
    BY DEF CommandInv, TypesInv, PairInv
  <1>2. \A g \in Foreign : g \in FileType /\ g.pair = NULL
    BY CommandAssumption
  <1>3. CASE name = Dash
    BY <1>1, <1>2, <1>3 DEF Content
  <1>4. CASE name # Dash
    BY <1>1, <1>4 DEF Content, FileExists
  <1> QED BY <1>3, <1>4

LEMMA ReadMessageKeeps ==
  ASSUME CommandInv, ReadMessage
  PROVE  CommandInv'
  BY QuietKeeps, MayRead DEF ReadMessage, At

LEMMA ReadCheckedKeeps ==
  ASSUME CommandInv, ReadChecked
  PROVE  CommandInv'
  <1>1. pc = "run" /\ todo # << >> /\ Continue /\ UNCHANGED <<disk, comment, pair, key>>
    BY DEF ReadChecked, At
  <1>2. PICK name \in DOMAIN disk : call' = Call("read", name)
    BY DEF ReadChecked
  <1> QED BY <1>1, <1>2, QuietKeeps, MayRead

LEMMA KdfKeeps ==
  ASSUME CommandInv, Kdf
  PROVE  CommandInv'
  <1>1. pc = "run" /\ todo # << >> /\ Continue /\ UNCHANGED <<disk, comment, pair, key>>
    BY DEF Kdf, At
  <1>2. PromisesOf(opt) = Promises
    BY MayAll DEF Kdf
  <1> QED BY <1>1, <1>2, QuietKeeps, NeedsPromised

LEMMA NewSecKeeps ==
  ASSUME CommandInv, NewSec
  PROVE  CommandInv'
  <1> DEFINE d == [kind |-> "sec", comment |-> opt.comment \o <<"secretkey">>, pair |-> opt.sec, rounds |-> ~ opt.none]
  <1>1. /\ pc = "run" /\ todo # << >> /\ Continue /\ UNCHANGED <<comment, pair, key>>
        /\ Put(opt.sec, d) /\ At("newsec")
    BY DEF NewSec, NewKeyFile, At
  <1>2. PromisesOf(opt) = Promises
    BY <1>1, MayAll
  <1>3. opt \in OptType
    BY DEF CommandInv, TypesInv
  <1>4. opt.comment \o <<"secretkey">> \in Name /\ opt.sec \in Optional /\ (~ opt.none) \in BOOLEAN
    BY <1>3, OptFields, JoinNames, LiteralWords
  <1>5. d \in FileType
    BY <1>4, FileIs
  <1>6. Origin(opt.sec, d)
    BY DEF Origin
  <1> HIDE DEF d
  <1> QED BY <1>1, <1>2, <1>5, <1>6, PutKeeps, NeedsPromised

LEMMA NewPubKeeps ==
  ASSUME CommandInv, NewPub
  PROVE  CommandInv'
  <1> DEFINE d == [kind |-> "pub", comment |-> opt.comment \o <<"publickey">>, pair |-> opt.sec, rounds |-> ~ opt.none]
  <1>1. /\ pc = "run" /\ todo # << >> /\ Continue /\ UNCHANGED <<comment, pair, key>>
        /\ Put(opt.pub, d) /\ At("newpub") /\ Head(todo) = "newpub"
    BY DEF NewPub, NewKeyFile, At
  <1>2. PromisesOf(opt) = Promises /\ opt.verb \in {"GENERATE", "SIGN"}
    BY <1>1, MayAll
  <1>3. opt \in OptType
    BY DEF CommandInv, TypesInv
  <1>4. opt.comment \o <<"publickey">> \in Name /\ opt.sec \in Optional /\ (~ opt.none) \in BOOLEAN
    BY <1>3, OptFields, JoinNames, LiteralWords
  <1>5. d \in FileType
    BY <1>4, FileIs
  <1>6. opt.verb = "GENERATE"
    <2>1. "newpub" \in MaySteps(opt)
      BY <1>1, TailLeft DEF CommandInv, TodoInv
    <2> QED BY <1>2, <2>1 DEF MaySteps
  <1>7. opt.pub \in Name /\ opt.sec \in Name /\ check_keyname_compliance(opt.pub, opt.sec)
    BY <1>1, <1>3, <1>6, OptFields DEF CommandInv, PairInv, Optional
  <1>8. Base(opt.pub) = PubNameOf(opt.sec)
    BY <1>7, PairNames
  <1>9. Origin(opt.pub, d)
    BY <1>8 DEF Origin
  <1> HIDE DEF d
  <1> QED BY <1>1, <1>2, <1>5, <1>9, PutKeeps, NeedsPromised

LEMMA TruncateKeeps ==
  ASSUME CommandInv, Truncate
  PROVE  CommandInv'
  <1> DEFINE d == [kind |-> "other", comment |-> << >>, pair |-> NULL, rounds |-> FALSE]
  <1>1. /\ pc = "run" /\ todo # << >> /\ Continue /\ UNCHANGED <<comment, pair, key>>
        /\ Put(opt.sig, d) /\ At("truncate")
    BY DEF Truncate, At
  <1>2. PromisesOf(opt) = Promises
    BY <1>1, MayAll
  <1>3. d \in FileType /\ Origin(opt.sig, d)
    <2>1. << >> \in Name /\ NULL \in Optional /\ FALSE \in BOOLEAN
      BY DEF Name, Optional
    <2>2. d \in FileType
      BY <2>1, FileIs
    <2> QED BY <2>2 DEF Origin
  <1> HIDE DEF d
  <1> QED BY <1>1, <1>2, <1>3, PutKeeps, NeedsPromised

(* What is made from a signature, or is one, has its comment and its pair. *)
LEMMA SignedOrigin ==
  ASSUME CommandInv, NEW name, NEW kind \in {"sig", "gz", "other"}
  PROVE  LET d == [kind |-> kind, comment |-> comment, pair |-> pair, rounds |-> FALSE] IN
         d \in FileType /\ Origin(name, d)
  <1>1. comment \in Name /\ pair \in Optional
    BY DEF CommandInv, TypesInv
  <1>2. pair # NULL => comment = <<VERIFYWITH>> \o PubNameOf(pair)
    BY DEF CommandInv, PairInv
  <1>3. [kind |-> kind, comment |-> comment, pair |-> pair, rounds |-> FALSE] \in FileType
    BY <1>1, FileIs
  <1>4. Origin(name, [kind |-> kind, comment |-> comment, pair |-> pair, rounds |-> FALSE])
    BY <1>2 DEF Origin
  <1> QED BY <1>3, <1>4

LEMMA NewSigKeeps ==
  ASSUME CommandInv, NewSig
  PROVE  CommandInv'
  <1> DEFINE kind == IF opt.gzip THEN "gz" ELSE "sig"
             d == [kind |-> kind, comment |-> comment, pair |-> pair, rounds |-> FALSE]
  <1>1. /\ pc = "run" /\ todo # << >> /\ Continue /\ UNCHANGED <<comment, pair, key>>
        /\ Put(opt.sig, d) /\ At("newsig")
    BY DEF NewSig, At
  <1>2. PromisesOf(opt) = Promises
    BY <1>1, MayAll
  <1>3. kind \in {"sig", "gz", "other"}
    OBVIOUS
  <1> HIDE DEF kind
  <1>4. d \in FileType /\ Origin(opt.sig, d)
    BY <1>3, SignedOrigin
  <1> HIDE DEF d
  <1> QED BY <1>1, <1>2, <1>4, PutKeeps, NeedsPromised

LEMMA WriteOutputKeeps ==
  ASSUME CommandInv, WriteOutput
  PROVE  CommandInv'
  <1> DEFINE kind == IF opt.gzip THEN "gz" ELSE "other"
             d == [kind |-> kind, comment |-> comment, pair |-> pair, rounds |-> FALSE]
  <1>1. /\ pc = "run" /\ todo # << >> /\ Continue /\ UNCHANGED <<comment, pair, key>>
        /\ Put(opt.msg, d) /\ Head(todo) = "output" /\ call' = Call("create", opt.msg)
    BY DEF WriteOutput, At
  <1>2. opt.verb = "VERIFY" /\ (opt.embedded \/ opt.gzip) /\ opt.msg # NULL
    <2>1. "output" \in MaySteps(opt) /\ opt.verb \in Verbs
      BY <1>1, TailLeft DEF CommandInv, TodoInv, PledgeInv
    <2>2. opt.verb = "VERIFY" /\ (opt.embedded \/ opt.gzip)
      BY <2>1 DEF MaySteps, Verbs
    <2> QED BY <1>1, <2>2 DEF CommandInv, PledgeInv
  <1>3. Needs(call') \subseteq PromisesOf(opt)
    <2>1. CASE opt.msg = Dash
      <3>1. Needs(call') = {"stdio"}
        BY <1>1, <2>1 DEF Needs, Call
      <3> QED BY <1>2, <3>1, OpenIsKept DEF Verbs
    <2>2. CASE opt.msg # Dash
      <3>1. WillCreate(opt)
        BY <1>2, <2>2 DEF WillCreate
      <3>2. PromisesOf(opt) = {"stdio", "rpath", "wpath", "cpath"}
        BY <1>2, <3>1 DEF PromisesOf, ReadPromises
      <3>3. Needs(call') = {"wpath", "cpath"}
        BY <1>1, <2>2 DEF Needs, Call
      <3> QED BY <3>2, <3>3
    <2> QED BY <2>1, <2>2
  <1>4. kind \in {"sig", "gz", "other"}
    OBVIOUS
  <1> HIDE DEF kind
  <1>5. d \in FileType /\ Origin(opt.msg, d)
    BY <1>4, SignedOrigin
  <1> HIDE DEF d
  <1> QED BY <1>1, <1>3, <1>5, PutKeeps

(* Before the public key is read there is none.                            *)
LEMMA NoKeyYet ==
  ASSUME CommandInv, At("seckey") \/ At("sigmsg")
  PROVE  key = NULL
  <1>1. pc = "run" /\ todo # << >> /\ Head(todo) \in {"seckey", "sigmsg"}
    BY DEF At
  <1>2. todo \in Seq(StepNames)
    BY <1>1 DEF CommandInv, TodoInv, StepsLeft
  <1>3. Head(todo) = todo[1] /\ 1 \in 1..Len(todo)
    BY <1>1, <1>2
  <1>4. ~ (Rank[Head(todo)] > Rank["pubkey"])
    BY <1>1 DEF Rank, StepNames
  <1> QED BY <1>3, <1>4 DEF CommandInv, KeyInv

LEMMA ReadSecKeeps ==
  ASSUME CommandInv, ReadSec
  PROVE  CommandInv'
  <1>1. /\ At("seckey") /\ pc = "run" /\ todo # << >> /\ Head(todo) = "seckey" /\ FileExists(opt.sec)
        /\ opt.sec # Dash => check_keyname_compliance(NULL, opt.sec)
        /\ UNCHANGED <<disk, opt, key, pledged, waived, pc, commands>>
    BY DEF ReadSec, At
  <1>2. PICK f \in Content(opt.sec) :
          /\ f.kind = "sec" /\ comment' = SigComment(opt.sec, f.comment)
          /\ pair' = IF opt.sec = Dash THEN NULL ELSE f.pair
          /\ todo' = IF f.rounds THEN Tail(todo) ELSE Tail(Tail(todo))
    BY DEF ReadSec
  <1>3. PromisesOf(opt) = Promises /\ opt.verb \in {"GENERATE", "SIGN"}
    BY <1>1, MayAll
  <1>4. opt \in OptType
    BY DEF CommandInv, TypesInv
  <1>5. opt.sec \in Name
    <2>1. opt.sec # NULL
      BY <1>1, <1>3 DEF CommandInv, PairInv
    <2> QED BY <1>4, <2>1, OptFields DEF Optional
  <1>6. f \in FileType /\ f.comment \in Name /\ f.pair \in Optional
    BY <1>1, ContentIs, FileFields
  <1>7. StepsLeft(todo', opt)
    <2>1. StepsLeft(todo, opt)
      BY <1>1 DEF CommandInv, TodoInv
    <2>2. StepsLeft(Tail(todo), opt) /\ Tail(todo) # << >>
      BY <1>1, <2>1, TailLeft
    <2>3. StepsLeft(Tail(Tail(todo)), opt)
      BY <2>2, TailLeft
    <2> QED BY <1>2, <2>2, <2>3
  <1>8. Needs(call') \subseteq PromisesOf(opt)
    BY <1>3, NeedsPromised
  <1>9. TodoInv' /\ PledgeInv'
    BY <1>1, <1>7, <1>8, RunKeeps
  <1>10. comment' \in Name /\ (opt.sec # Dash => comment' = <<VERIFYWITH>> \o PubNameOf(opt.sec))
    <2>1. CASE opt.sec = Dash
      <3>1. comment' = <<"signaturefrom">> \o f.comment
        BY <1>2, <2>1 DEF SigComment
      <3> QED BY <1>6, <2>1, <3>1, JoinNames, LiteralWords
    <2>2. CASE opt.sec # Dash
      <3>2. PubNameOf(opt.sec) \in Name
        BY <1>5, PubNameIsName
      <3>3. Stem(Base(opt.sec)) \in Name
        BY <1>5, BaseName, StemIsName
      <3> DEFINE a == <<VERIFYWITH>>
                 b == Stem(Base(opt.sec))
                 c == <<".pub">>
      <3>4. comment' = a \o b \o c /\ PubNameOf(opt.sec) = b \o c
        BY <1>2, <2>2 DEF SigComment, PubNameOf
      <3>5. a \in Name /\ b \in Name /\ c \in Name
        BY <3>3, LiteralWords
      <3> HIDE DEF a, b, c
      <3>6. a \o b \o c = a \o (b \o c)
        BY <3>5, JoinAssociates
      <3>7. a \o (b \o c) \in Name
        BY <3>5, JoinNames
      <3>8. comment' = a \o PubNameOf(opt.sec) /\ comment' \in Name
        BY <3>4, <3>6, <3>7
      <3> QED BY <3>8 DEF a
    <2> QED BY <2>1, <2>2
  <1>11. pair' \in Optional
    BY <1>2, <1>6 DEF Optional
  <1>12. TypesInv'
    BY <1>1, <1>10, <1>11 DEF CommandInv, TypesInv
  <1>13. pair' # NULL => comment' = <<VERIFYWITH>> \o PubNameOf(pair')
    <2> SUFFICES ASSUME pair' # NULL PROVE comment' = <<VERIFYWITH>> \o PubNameOf(pair')
      OBVIOUS
    <2>1. opt.sec # Dash /\ pair' = f.pair /\ f.pair # NULL
      BY <1>2
    <2>2. Origin(opt.sec, f)
      BY <1>1, <2>1, ContentIs
    <2>3. f.pair = opt.sec
      BY <1>2, <2>1, <2>2 DEF Origin
    <2> QED BY <1>10, <2>1, <2>3
  <1>14. PairInv'
    BY <1>1, <1>13 DEF CommandInv, PairInv
  <1>15. KeyInv'
    <2>1. key' = NULL /\ pc' = "run"
      BY <1>1, NoKeyYet
    <2> QED BY <2>1 DEF KeyInv
  <1> QED BY <1>9, <1>12, <1>14, <1>15 DEF CommandInv

LEMMA ReadSigKeeps ==
  ASSUME CommandInv, ReadSig
  PROVE  CommandInv'
  <1>1. /\ At("sigmsg") /\ pc = "run" /\ todo # << >> /\ Head(todo) = "sigmsg" /\ FileExists(opt.sig)
        /\ call' = Call("read", opt.sig)
        /\ Continue /\ UNCHANGED <<disk, key>>
    BY DEF ReadSig, At
  <1>2. PICK f \in Content(opt.sig) :
          /\ f.kind = IF opt.verb = "VERIFY" /\ opt.gzip THEN "gz" ELSE "sig"
          /\ comment' = f.comment /\ pair' = f.pair
    BY DEF ReadSig
  <1>3. todo' = Tail(todo) /\ UNCHANGED <<opt, pledged, waived, pc>>
    BY <1>1 DEF Continue
  <1>4. f \in FileType /\ f.comment \in Name /\ f.pair \in Optional
    BY <1>1, ContentIs, FileFields
  <1>5. StepsLeft(todo', opt)
    BY <1>1, <1>3, TailLeft DEF CommandInv, TodoInv
  <1>6. Needs(call') \subseteq PromisesOf(opt)
    BY <1>1, MayRead
  <1>7. TodoInv' /\ PledgeInv'
    BY <1>1, <1>3, <1>5, <1>6, RunKeeps
  <1>8. TypesInv'
    BY <1>1, <1>2, <1>3, <1>4 DEF CommandInv, TypesInv
  <1>9. pair' # NULL => comment' = <<VERIFYWITH>> \o PubNameOf(pair')
    <2> SUFFICES ASSUME f.pair # NULL PROVE f.comment = <<VERIFYWITH>> \o PubNameOf(f.pair)
      BY <1>2
    <2>1. PICK g \in DOMAIN disk : Origin(g, f)
      BY <1>1, ContentIs
    <2>2. f.kind \in {"sig", "gz"}
      BY <1>2
    <2> QED BY <2>1, <2>2 DEF Origin
  <1>10. PairInv'
    BY <1>1, <1>3, <1>9 DEF CommandInv, PairInv
  <1>11. KeyInv'
    <2>1. key' = NULL /\ pc' = "run"
      BY <1>1, <1>3, NoKeyYet
    <2> QED BY <2>1 DEF KeyInv
  <1> QED BY <1>7, <1>8, <1>10, <1>11 DEF CommandInv

LEMMA ReadPubKeeps ==
  ASSUME CommandInv, ReadPub
  PROVE  CommandInv'
  <1>1. /\ pc = "run" /\ todo # << >> /\ Head(todo) = "pubkey"
        /\ key' = KeyPath(opt, comment) /\ call' = Call("read", key')
        /\ Continue /\ UNCHANGED <<disk, comment, pair>>
    BY DEF ReadPub, At
  <1>2. todo' = Tail(todo) /\ UNCHANGED <<opt, pledged, waived, pc>>
    BY <1>1 DEF Continue
  <1>3. StepsLeft(todo, opt)
    BY <1>1 DEF CommandInv, TodoInv
  <1>4. StepsLeft(todo', opt) /\ \A i \in 1..Len(todo') : Rank[todo'[i]] > Rank["pubkey"]
    BY <1>1, <1>2, <1>3, TailLeft
  <1>5. Needs(call') \subseteq PromisesOf(opt)
    BY <1>1, MayRead
  <1>6. TodoInv' /\ PledgeInv'
    BY <1>1, <1>2, <1>4, <1>5, RunKeeps
  <1>7. TypesInv'
    BY <1>1, <1>2 DEF CommandInv, TypesInv
  <1>8. PairInv'
    BY <1>1, <1>2 DEF CommandInv, PairInv
  <1>9. KeyInv'
    <2>1. KeyPath(opt', comment') = KeyPath(opt, comment)
      BY <1>1, <1>2
    <2> HIDE DEF KeyPath
    <2> QED BY <1>1, <1>2, <1>4, <2>1 DEF KeyInv
  <1> QED BY <1>6, <1>7, <1>8, <1>9 DEF CommandInv

LEMMA NextKeeps ==
  ASSUME CommandInv, [Next]_vars
  PROVE  CommandInv'
  <1>1. CASE Start
    BY <1>1, StartKeeps
  <1>2. CASE RunUnpledged
    BY <1>2, RunUnpledgedKeeps
  <1>3. CASE RunPledged
    BY <1>3, RunPledgedKeeps
  <1>4. CASE ReadMessage
    BY <1>4, ReadMessageKeeps
  <1>5. CASE ReadSec
    BY <1>5, ReadSecKeeps
  <1>6. CASE Kdf
    BY <1>6, KdfKeeps
  <1>7. CASE NewSec
    BY <1>7, NewSecKeeps
  <1>8. CASE NewPub
    BY <1>8, NewPubKeeps
  <1>9. CASE Truncate
    BY <1>9, TruncateKeeps
  <1>10. CASE NewSig
    BY <1>10, NewSigKeeps
  <1>11. CASE ReadSig
    BY <1>11, ReadSigKeeps
  <1>12. CASE ReadPub
    BY <1>12, ReadPubKeeps
  <1>13. CASE ReadChecked
    BY <1>13, ReadCheckedKeeps
  <1>14. CASE WriteOutput
    BY <1>14, WriteOutputKeeps
  <1>15. CASE Return
    BY <1>15, ExitKeeps DEF Return
  <1>16. CASE Fail
    BY <1>16, RefuseKeeps DEF Fail
  <1>17. CASE UNCHANGED vars
    BY <1>17 DEF vars, CommandInv, TypesInv, TodoInv, PledgeInv, PairInv, KeyInv
  <1> QED
    BY <1>1, <1>2, <1>3, <1>4, <1>5, <1>6, <1>7, <1>8, <1>9, <1>10, <1>11, <1>12, <1>13, <1>14, <1>15, <1>16, <1>17
    DEF Next, CommandStep, Done

LEMMA InvariantHolds == Spec => []CommandInv
  <1>1. Init => CommandInv
    BY CommandStarts
  <1>2. CommandInv /\ [Next]_vars => CommandInv'
    BY NextKeeps
  <1> QED BY <1>1, <1>2, PTL DEF Spec

-----------------------------------------------------------------------------
(* The theorems *)

LEMMA Allowed ==
  ASSUME CommandInv
  PROVE  AllowedByPledge
  <1>1. CASE pc \notin {"verb", "run"}
    <2>1. pledged = Promises /\ waived = {}
      BY <1>1 DEF CommandInv, PledgeInv
    <2> QED BY <2>1, NeedsPromised DEF AllowedByPledge
  <1>2. CASE pc = "verb"
    <2>1. pledged = Promises /\ call = Call("pledge", Dash)
      BY <1>2 DEF CommandInv, PledgeInv
    <2>2. ~ Opens(call)
      BY <2>1 DEF Opens, Call
    <2> QED BY <2>1, <2>2, NeedsPromised DEF AllowedByPledge
  <1>3. CASE pc = "run"
    <2>1. /\ opt.verb \in Verbs /\ pledged = PromisesOf(opt) /\ Needs(call) \subseteq PromisesOf(opt)
          /\ waived = waive_flags(Promises) \cup waive_flags(PromisesOf(opt))
      BY <1>3 DEF CommandInv, PledgeInv
    <2>2. "OPEN" \notin waived
      BY <2>1, OpenIsKept
    <2> QED BY <2>1, <2>2 DEF AllowedByPledge
  <1> QED BY <1>1, <1>2, <1>3

LEMMA Named ==
  ASSUME CommandInv
  PROVE  KeyIsNamed
  <1> SUFFICES ASSUME key # NULL, opt.pub = NULL PROVE KeyIsNamed
    BY DEF KeyIsNamed
  <1> DEFINE h == Hint(comment)
  <1>1. key = KeyPath(opt, comment) /\ opt \in OptType /\ comment \in Name
    BY DEF CommandInv, KeyInv, TypesInv
  <1>2. /\ HasHint(comment) /\ key = safepath \o h
        /\ opt.keytype # NULL => check_keytype(h, opt.keytype)
    BY <1>1 DEF KeyPath
  <1>3. h \in Name
    BY <1>1, <1>2, HintIsName DEF HasHint
  <1>4. ~ Has(h, "/")
    BY <1>2 DEF HasHint
  <1> HIDE DEF h
  <1>5. Base(key) = h
    BY <1>2, <1>3, <1>4, BaseOfSafe
  <1>6. ASSUME opt.keytype # NULL
        PROVE  \E k \in 0..Len(key) : key = SubSeq(key, 1, k) \o <<"-">> \o opt.keytype \o <<".pub">>
    <2>1. opt.keytype \in Name /\ check_keytype(h, opt.keytype)
      BY <1>1, <1>2, <1>6, OptFields DEF Optional
    <2>2. PICK k \in 0..Len(h) : h = SubSeq(h, 1, k) \o <<"-">> \o opt.keytype \o <<".pub">>
      BY <1>3, <2>1, KeytypeEnds
    <2>3. k + 2 \in 0..Len(key) /\ SubSeq(key, 1, k + 2) = safepath \o SubSeq(h, 1, k)
      <3>1. safepath \in Name /\ Len(safepath) = 2
        BY LiteralWords
      <3>2. /\ key \in Name /\ Len(key) = 2 + Len(h) /\ Len(h) \in Nat
            /\ \A i \in 1..2 : key[i] = safepath[i]
            /\ \A i \in 1..Len(h) : key[2 + i] = h[i]
        <4>1. Len(h) \in Nat
          BY <1>3 DEF Name
        <4>2. /\ safepath \o h \in Name /\ Len(safepath \o h) = Len(safepath) + Len(h)
              /\ \A i \in 1..Len(safepath) : (safepath \o h)[i] = safepath[i]
              /\ \A i \in 1..Len(h) : (safepath \o h)[Len(safepath) + i] = h[i]
          BY <1>3, <3>1, JoinNames
        <4> QED BY <1>2, <3>1, <4>1, <4>2
      <3> DEFINE a == SubSeq(key, 1, k + 2)
                 b == SubSeq(h, 1, k)
                 c == safepath \o b
      <3>3. a \in Name /\ Len(a) = k + 2 /\ \A i \in 1..(k + 2) : a[i] = key[i]
        BY <3>2 DEF Name
      <3>4. b \in Name /\ Len(b) = k /\ \A i \in 1..k : b[i] = h[i]
        BY <1>3, <3>2 DEF Name
      <3> HIDE DEF a, b
      <3>5. /\ c \in Name /\ Len(c) = 2 + k
            /\ \A i \in 1..2 : c[i] = safepath[i]
            /\ \A i \in 1..k : c[2 + i] = b[i]
        <4>1. /\ safepath \o b \in Name /\ Len(safepath \o b) = Len(safepath) + Len(b)
              /\ \A i \in 1..Len(safepath) : (safepath \o b)[i] = safepath[i]
              /\ \A i \in 1..Len(b) : (safepath \o b)[Len(safepath) + i] = b[i]
          BY <3>1, <3>4, JoinNames
        <4> QED BY <3>1, <3>4, <4>1
      <3> HIDE DEF c
      <3>6. \A i \in 1..Len(a) : a[i] = c[i]
        <4> SUFFICES ASSUME NEW i \in 1..(k + 2) PROVE a[i] = c[i]
          BY <3>3
        <4>1. CASE i <= 2
          BY <3>2, <3>3, <3>5, <4>1
        <4>2. CASE i > 2
          <5>1. i - 2 \in 1..k /\ i - 2 \in 1..Len(h) /\ i = 2 + (i - 2)
            BY <3>2, <4>2
          <5>2. c[2 + (i - 2)] = h[i - 2] /\ key[2 + (i - 2)] = h[i - 2]
            BY <3>2, <3>4, <3>5, <5>1
          <5> QED BY <3>3, <5>1, <5>2
        <4> QED BY <4>1, <4>2
      <3>7. a = c
        BY <3>3, <3>5, <3>6, SameName
      <3> QED BY <3>2, <3>7 DEF a, b, c
    <2> DEFINE s == safepath
               p == SubSeq(h, 1, k)
               q == <<"-">>
               r == opt.keytype
               e == <<".pub">>
    <2>4. s \in Name /\ p \in Name /\ q \in Name /\ r \in Name /\ e \in Name
      BY <1>3, <2>1, LiteralWords DEF Name
    <2>5. key = s \o (p \o q \o r \o e) /\ SubSeq(key, 1, k + 2) = s \o p
      BY <1>2, <2>2, <2>3
    <2> HIDE DEF s, p, q, r, e
    <2>6. /\ s \o (p \o q \o r \o e) = (s \o (p \o q \o r)) \o e
          /\ s \o (p \o q \o r) = (s \o (p \o q)) \o r
          /\ s \o (p \o q) = (s \o p) \o q
      <3> DEFINE v == p \o q
                 w == v \o r
      <3>1. v \in Name
        BY <2>4, JoinNames
      <3> HIDE DEF v
      <3>2. w \in Name
        BY <2>4, <3>1, JoinNames
      <3> HIDE DEF w
      <3>3. s \in Name /\ p \in Name /\ q \in Name /\ r \in Name /\ e \in Name
        BY <2>4
      <3>4. s \o (w \o e) = (s \o w) \o e
        BY <3>2, <3>3, JoinAssociates, SMTT(30)
      <3>5. s \o (v \o r) = (s \o v) \o r
        BY <3>1, <3>3, JoinAssociates, SMTT(30)
      <3>6. s \o (p \o q) = (s \o p) \o q
        BY <3>3, JoinAssociates, SMTT(30)
      <3> QED BY <3>4, <3>5, <3>6 DEF v, w
    <2>7. key = SubSeq(key, 1, k + 2) \o q \o r \o e
      BY <2>5, <2>6
    <2> QED BY <2>3, <2>7 DEF q, r, e
  <1>7. ASSUME NEW f \in DOMAIN disk, disk[f].kind = "pub", pair # NULL, disk[f].pair = pair PROVE Base(f) = Base(key)
    <2>1. Base(f) = PubNameOf(pair) /\ comment = <<VERIFYWITH>> \o PubNameOf(pair)
      BY <1>7 DEF CommandInv, PairInv, Origin
    <2> DEFINE n == PubNameOf(pair)
    <2>2. n \in Name
      BY <1>7, PubNameIsName DEF CommandInv, TypesInv, Optional
    <2> HIDE DEF n
    <2>3. Hint(<<VERIFYWITH>> \o n) = n
      BY <2>2, HintOfNamed
    <2> QED BY <1>5, <2>1, <2>3 DEF h, n
  <1> QED BY <1>2, <1>5, <1>6, <1>7 DEF KeyIsNamed

(* No command, whatever its options and its files, comes to a system call  *)
(* that a promise it has given up would forbid, or that pledge_waive.c     *)
(* would make fail.                                                        *)
THEOREM PledgeAlwaysAllows == Spec => []AllowedByPledge
  BY InvariantHolds, Allowed, PTL

(* A public key that was not named on the command line always lies in      *)
(* /etc/signify itself, has the type that was asked for, and has the name  *)
(* of the public key of the pair that signed.                              *)
THEOREM KeyAlwaysNamed == Spec => []KeyIsNamed
  BY InvariantHolds, Named, PTL

-----------------------------------------------------------------------------
(* ReadMsg, for files of any length, every first size of the buffer and    *)
(* every limit: the buffer is never left, the limit is kept, and what is   *)
(* read is what Reader promises.                                           *)

(* The assumption says what is in Seq(Nat): the type of messages.          *)
ReadMsgType ==
  /\ file \in Seq(Nat) /\ msg \in Seq(Nat)
  /\ regular \in BOOLEAN
  /\ alloc \in Nat /\ space \in Nat /\ changes \in Nat
  /\ reading \in {"stat", "read", "done", "toolarge", "failed"}

(* How much of the buffer is used: there is always room for a byte more    *)
(* than read(2) may put there, it is never without room before the first   *)
(* byte, and it was only doubled below the limit.                          *)
InBuffer ==
  /\ reading = "stat" => msg = << >>
  /\ reading \in {"read", "done"} => Len(msg) + space < alloc
  /\ reading = "read" /\ msg = << >> => space > 0
  /\ reading = "read" => Len(msg) + space <= maxmsgsize + 1
  /\ reading = "done" => Len(msg) <= maxmsgsize

(* As long as nobody changed the file, what was read is a part of it, and  *)
(* the buffer of a regular file never becomes full.                        *)
OfFile ==
  changes = 0 =>
    /\ reading \in {"stat", "read"} => Len(msg) <= Len(file)
    /\ reading = "read" /\ regular => Len(msg) + space = Len(file) + 1
    /\ reading = "toolarge" =>
         IF regular THEN Len(file) > maxmsgsize ELSE 2 * Len(file) > maxmsgsize

ReadMsgInv == ReadMsgType /\ InBuffer /\ OfFile

LEMMA ReadMsgInvInit == ReadMsgInit => ReadMsgInv
  BY ReadMsgAssumption DEF ReadMsgInit, ReadMsgInv, ReadMsgType, InBuffer, OfFile

(* A piece that is read is as long as read(2) says.                        *)
LEMMA PieceRead ==
  ASSUME NEW f \in Seq(Nat), NEW m \in Seq(Nat), NEW n \in 1..(Len(f) - Len(m))
  PROVE  /\ m \o SubSeq(f, Len(m) + 1, Len(m) + n) \in Seq(Nat)
         /\ Len(m \o SubSeq(f, Len(m) + 1, Len(m) + n)) = Len(m) + n
  OBVIOUS

LEMMA ReadMsgInvNext == ReadMsgInv /\ [ReadMsgNext]_rvars => ReadMsgInv'
  <1> SUFFICES ASSUME ReadMsgInv, [ReadMsgNext]_rvars PROVE ReadMsgInv'
    OBVIOUS
  <1> USE ReadMsgAssumption DEF ReadMsgInv, ReadMsgType, InBuffer, OfFile
  <1>0. Len(msg) \in Nat /\ Len(file) \in Nat
    OBVIOUS
  <1>1. CASE Stat
    BY <1>0, <1>1 DEF Stat, StatTooLarge, FirstSize
  <1>2. CASE GrowTooLarge
    BY <1>0, <1>2 DEF GrowTooLarge, TooLarge
  <1>3. CASE ReadSome
    <2>1. PICK n \in 1..Smaller(Buffer.space, Len(file) - Len(msg)) :
            /\ msg' = msg \o SubSeq(file, Len(msg) + 1, Len(msg) + n)
            /\ space' = Buffer.space - n
      BY <1>3 DEF ReadSome
    <2>2. Buffer.space \in Nat /\ Buffer.alloc \in Nat
      BY <1>0 DEF Buffer, Grown
    <2>3. n \in 1..(Len(file) - Len(msg)) /\ n <= Buffer.space
      BY <1>0, <2>2 DEF Smaller
    <2>4. msg' \in Seq(Nat) /\ Len(msg') = Len(msg) + n
      BY <2>1, <2>3, PieceRead
    <2>5. Len(msg) + Buffer.space < Buffer.alloc /\ Len(msg) + Buffer.space <= maxmsgsize + 1
      <3>1. CASE space = 0
        <4>1. Buffer.space = Len(msg) /\ Buffer.alloc = Len(msg) + Len(msg) + 1
          BY <3>1 DEF Buffer, Grown
        <4>2. 2 * Len(msg) <= maxmsgsize
          BY <1>0, <1>3, <3>1 DEF ReadSome, TooLarge
        <4> QED BY <1>0, <4>1, <4>2
      <3>2. CASE space # 0
        BY <1>0, <1>3, <3>2 DEF ReadSome, Buffer
      <3> QED BY <3>1, <3>2
    <2>6. UNCHANGED <<file, regular, reading, changes>> /\ alloc' = Buffer.alloc /\ reading = "read"
      BY <1>3 DEF ReadSome
    <2>7. InBuffer' /\ ReadMsgType'
      <3>1. Len(msg') + space' = Len(msg) + Buffer.space /\ space' \in Nat
        BY <1>0, <2>1, <2>2, <2>3, <2>4, SMTT(30)
      <3>2. msg' # << >>
        BY <1>0, <2>3, <2>4
      <3> QED BY <1>0, <2>2, <2>4, <2>5, <2>6, <3>1, <3>2
    <2>8. changes = 0 /\ regular => Buffer.space = space
      BY <1>0, <2>6, <2>3 DEF Buffer, Grown
    <2>9. OfFile'
      BY <1>0, <2>1, <2>2, <2>3, <2>4, <2>6, <2>8, SMTT(30)
    <2> QED BY <2>7, <2>9
  <1>4. CASE ReadEnd
    BY <1>0, <1>4 DEF ReadEnd, TooLarge, Buffer, Grown
  <1>5. CASE ReadFails
    BY <1>0, <1>5 DEF ReadFails
  <1>6. CASE Change
    BY <1>0, <1>6 DEF Change
  <1>7. CASE UNCHANGED rvars
    BY <1>7 DEF rvars
  <1> QED BY <1>1, <1>2, <1>3, <1>4, <1>5, <1>6, <1>7 DEF ReadMsgNext, ReadMsgStep

LEMMA ReadMsgInvariant == ReadMsgSpec => []ReadMsgInv
  BY ReadMsgInvInit, ReadMsgInvNext, PTL DEF ReadMsgSpec

(* The message and the NUL after it stay in the buffer, none above the     *)
(* limit is accepted, and none far below it is refused.                    *)
THEOREM MessageAlwaysFits == ReadMsgSpec => []MessageFits
  <1>1. ReadMsgInv => MessageFits
    BY DEF ReadMsgInv, InBuffer, OfFile, MessageFits
  <1> QED BY <1>1, ReadMsgInvariant, PTL

(* readmsg implements Reader: every read takes the next bytes of the file, *)
(* and the message ends only at an end of the file.                        *)
THEOREM ReadMsgIsReader == ReadMsgSpec => IsReader
  <1> USE DEF Promise!Init, Promise!Next, Promise!Take, Promise!End, Promise!Refuse, Promise!Change, Promise!vars
  <1>1. ReadMsgInit => Promise!Init
    BY DEF ReadMsgInit
  <1>2. ReadMsgInv /\ [ReadMsgNext]_rvars => [Promise!Next]_(Promise!vars)
    <2> SUFFICES ASSUME ReadMsgInv, [ReadMsgNext]_rvars PROVE [Promise!Next]_(Promise!vars)
      OBVIOUS
    <2>1. CASE Stat
      BY <2>1 DEF Stat
    <2>2. CASE GrowTooLarge
      BY <2>2 DEF GrowTooLarge, TooLarge
    <2>3. CASE ReadSome
      <3>1. PICK n \in 1..Smaller(Buffer.space, Len(file) - Len(msg)) :
              msg' = msg \o SubSeq(file, Len(msg) + 1, Len(msg) + n)
        BY <2>3 DEF ReadSome
      <3>2. Buffer.space \in Nat /\ Len(msg) \in Nat /\ Len(file) \in Nat
        BY DEF ReadMsgInv, ReadMsgType, Buffer, Grown
      <3>3. n \in 1..(Len(file) - Len(msg))
        BY <3>2 DEF Smaller
      <3> QED BY <2>3, <3>1, <3>3 DEF ReadSome
    <2>4. CASE ReadEnd
      <3>1. Len(msg) >= Len(file)
        BY <2>4 DEF ReadEnd, Buffer, Grown, ReadMsgInv, ReadMsgType, InBuffer
      <3> QED BY <2>4, <3>1 DEF ReadEnd
    <2>5. CASE ReadFails
      BY <2>5 DEF ReadFails
    <2>6. CASE Change
      BY <2>6 DEF Change
    <2>7. CASE UNCHANGED rvars
      BY <2>7 DEF rvars
    <2> QED BY <2>1, <2>2, <2>3, <2>4, <2>5, <2>6, <2>7 DEF ReadMsgNext, ReadMsgStep
  <1> QED BY <1>1, <1>2, ReadMsgInvariant, PTL DEF ReadMsgSpec, IsReader, Promise!Spec

-----------------------------------------------------------------------------
(* Arc4random. A byte is named by its key, the number of its block and its *)
(* place. The invariant OnceInv says of the generators whose buffer may    *)
(* still be given out (Live) that no byte was heard of that such a         *)
(* generator has yet to make (Ahead): with its key only those below its    *)
(* counter or in its next key were used, and with keys made of its key only*)
(* those of a copy that drew entropy (Parted), as a copy made by fork does *)
(* before it gives any.                                                    *)

(* A counter, and how many blocks came before it.                          *)
Counters == (0..(U32 - 1)) \X (0..(U32 - 1))
Value(c) == c[1] + U32 * c[2]

(* What a key is named by, and a byte of keystream.                        *)
Dats == {<<"nothing">>} \cup ({"dat", "entropy"} \X Nat)
Parts == ({"entropy"} \X Nat) \cup (Counters \X Dats)
Keystreams == Seq(Parts) \X Counters \X (0..(BLOCKSZ - 1))

ProcType ==
  [pid : Nat, rs : [have : Int, count : Int],
   rsx : [input : [key : Seq(Parts), counter : Counters], buf : Seq(Keystreams \cup {Zero})],
   rs_pid : Nat, forked : BOOLEAN]

Key(s) == s.rsx.input.key
Counter(s) == s.rsx.input.counter
Buf(s) == s.rsx.buf

(* The part of the buffer that was not given out yet.                      *)
Fresh(s) == {k \in 1..RSBUFSZ : k > RSBUFSZ - s.rs.have}
Rest(s) == {Buf(s)[k] : k \in Fresh(s)}
GivenOut(d) == {d[k] : k \in 1..Len(d)}

(* A generator's variables when it has some.                               *)
Sound(s) ==
  /\ s.rs.have \in 0..(RSBUFSZ - KEYIV) /\ s.rs.count \in Nat
  /\ Key(s) # << >> /\ Value(Counter(s)) <= Blocks(ValSize)
  /\ Len(Buf(s)) = RSBUFSZ
  /\ \A k \in 1..RSBUFSZ : Buf(s)[k] # Zero => Len(Buf(s)[k][1]) < Len(Key(s))

Generators(m) == {p \in Processes : Allocated(m[p])}

(* The entropy that a key is made of was drawn before.                     *)
Known(ckey, e) ==
  \A n \in Nat : ckey[1] = <<"entropy", n>> \/ (\E i \in 2..Len(ckey) : ckey[i][2] = <<"entropy", n>>) => n < e

(* The key that others are made of; those that it parts from when one of   *)
(* two copies of a generator draws entropy.                                *)
Under(j, k) == Len(j) <= Len(k) /\ \A i \in 1..Len(j) : k[i] = j[i]
Parted(j, k) == Len(j) < Len(k) /\ \E n \in Nat : k[Len(j) + 1][2] = <<"entropy", n>>

(* The byte b is none that a generator s has yet to give out.              *)
Apart(s, b) ==
  Under(Key(s), b[1]) =>
    \/ b[1] = Key(s) /\ (b \in KeyBytes(s) \/ Value(b[2]) < Value(Counter(s)))
    \/ Parted(Key(s), b[1])

(* A generator whose buffer may still be given out.                        *)
Whole(s) ==
  /\ \A k \in 1..RSBUFSZ : k \in Fresh(s) <=> Buf(s)[k] # Zero
  /\ \A k, l \in Fresh(s) : Buf(s)[k] = Buf(s)[l] => k = l

(* No byte comes twice from the generators L, after w and d.               *)
Buffered(m, L) == UNION {Rest(m[p]) : p \in L}
Filled(m, e) == \A p \in Generators(m) : Sound(m[p]) /\ Known(Key(m[p]), e)
Unbroken(m, L) == L \subseteq Generators(m) /\ \A p \in L : Whole(m[p])
Spoken(m, L, w, d) == w \cup GivenOut(d) \cup Buffered(m, L)
Ahead(m, L, w, d, e) == \A b \in Spoken(m, L, w, d) : Known(b[1], e) /\ \A p \in L : Apart(m[p], b)
Unmixed(m, L, w, d) ==
  /\ (w \cup GivenOut(d)) \cap Buffered(m, L) = {} /\ w \cap GivenOut(d) = {}
  /\ \A p, q \in L : p # q => Rest(m[p]) \cap Rest(m[q]) = {}
Distinct(d) == \A k, l \in 1..Len(d) : d[k] = d[l] => k = l
(* No key was made from that of p, but by a copy that drew entropy.        *)
Descent(m, L) ==
  \A p \in L : \A q \in Generators(m) \ {p} : Under(Key(m[p]), Key(m[q])) =>
    Parted(Key(m[p]), Key(m[q])) \/ (q \notin L /\ Key(m[q]) = Key(m[p]))
InStep(m) == \A p, q \in Generators(m) : Key(m[p]) = Key(m[q]) => Counter(m[p]) = Counter(m[q])
Unkeyed(m, L, d) == \A q \in Generators(m) : KeyBytes(m[q]) \cap (GivenOut(d) \cup Buffered(m, L)) = {}

OnceInv(m, L, w, d, e) ==
  /\ Filled(m, e) /\ Unbroken(m, L) /\ Ahead(m, L, w, d, e) /\ Unmixed(m, L, w, d) /\ Distinct(d)
  /\ Descent(m, L) /\ InStep(m) /\ Unkeyed(m, L, d)

(* What was given out is older than the key, and not in the buffer.        *)
Behind(s, given) ==
  /\ given # {} => Allocated(s)
  /\ \A b \in given : Len(b[1]) < Len(Key(s)) /\ \A k \in 1..RSBUFSZ : Buf(s)[k] # b
PastInv(m, given) == \A p \in Processes : Behind(m[p], given[p])

(* Those that give out their buffers: where no fork is to be found and     *)
(* bytes are left, and where the call is past both tests.                  *)
Live == {p \in Generators(mem) : (~ IsFork(mem[p]) /\ mem[p].rs.count > 0) \/ (p = me /\ rpc = "take")}

AllGiven == [p \in Processes |-> past[p] \cup IF p = me THEN GivenOut(drawn) ELSE {}]

CallInv ==
  /\ mem \in [Processes -> ProcType] /\ me \in Processes /\ left \in Nat /\ drawn \in Seq(Keystreams)
  /\ entropy \in Nat /\ used \subseteq Keystreams
  /\ past \in [Processes -> SUBSET Keystreams] /\ since \in [Processes -> Nat]
  /\ rpc \in {"idle", "count", "stir", "take", "return"} /\ request \in {"none", "buf", "addrandom", "u32", "stir"}
  /\ rpc # "take" => drawn = << >>
  /\ rpc = "count" => /\ request = "u32" => left = ValSize
                      /\ IsFork(mem[me]) => mem[me].rs.count <= 0
  /\ rpc = "take" => Allocated(mem[me]) /\ (request = "u32" => (left = ValSize /\ drawn = << >>) \/ left = 0)
  /\ rpc = "take" /\ request = "addrandom" => drawn = << >>

CountInv ==
  /\ \A p \in Generators(mem) :
       \/ mem[p].rs.count = 0
       \/ since[p] + mem[p].rs.count + (IF p = me /\ rpc = "take" THEN Len(drawn) + left ELSE 0) < 2 * REKEY_BASE
  /\ ReseededInTime

RandomInv ==
  CallInv /\ OnceInv(mem, Live, used, drawn, entropy) /\ PastInv(mem, AllGiven) /\ CountInv
-----------------------------------------------------------------------------
(* Numbers *)

LEMMA NatInSet ==
  ASSUME NEW S, 0 \in S, \A n \in Nat : n \in S => n + 1 \in S
  PROVE  Nat \subseteq S
  <1> DEFINE R == OpToRel(<, Nat)
  <1> SUFFICES ASSUME Nat \ S # {} PROVE FALSE
    OBVIOUS
  <1>1. IsWellFoundedOn(R, Nat)
    BY NatLessThanWellFounded
  <1>2. \A x, y \in Nat : <<y, x>> \in R <=> y < x
    BY DEF R, OpToRel
  <1> HIDE DEF R
  <1>3. Nat \ S \subseteq Nat
    OBVIOUS
  <1>4. PICK m \in Nat \ S : \A n \in Nat \ S : ~ (<<n, m>> \in R)
    BY <1>1, <1>3, WFMin
  <1>5. m # 0 /\ m - 1 \in Nat /\ m - 1 < m
    BY <1>4
  <1>6. m - 1 \in S
    BY <1>2, <1>4, <1>5
  <1>7. (m - 1) + 1 \in S
    BY <1>5, <1>6
  <1> QED BY <1>4, <1>7

LEMMA DivIs ==
  ASSUME NEW a \in Nat, NEW b \in Nat \ {0}
  PROVE  a \div b \in Nat /\ a % b \in 0..(b - 1) /\ a = b * (a \div b) + (a % b)
  OBVIOUS

LEMMA Bigger ==
  ASSUME NEW b \in Nat \ {0}, NEW x \in Int, NEW y \in Int
  PROVE  x < y <=> b * x < b * y
  OBVIOUS

(* A byte lies in one of the blocks that so many bytes take.               *)
LEMMA BlockOfByte ==
  ASSUME NEW n \in Nat, NEW k \in 1..n
  PROVE  (k - 1) \div BLOCKSZ \in 0..(Blocks(n) - 1) /\ (k - 1) % BLOCKSZ \in 0..(BLOCKSZ - 1) /\ Blocks(n) \in Nat
  <1> DEFINE B == BLOCKSZ
             q == (k - 1) \div B
             m == (n + B - 1) \div B
  <1>1. B \in Nat \ {0}
    BY ChachaAssumption
  <1> HIDE DEF B
  <1>2. k - 1 \in Nat /\ n + B - 1 \in Nat
    BY <1>1
  <1>3. q \in Nat /\ (k - 1) % B \in 0..(B - 1) /\ k - 1 = B * q + ((k - 1) % B)
    BY <1>1, <1>2, DivIs
  <1>4. m \in Nat /\ (n + B - 1) % B \in 0..(B - 1) /\ n + B - 1 = B * m + ((n + B - 1) % B)
    BY <1>1, <1>2, DivIs
  <1> HIDE DEF q, m
  <1>5. B * q \in Nat /\ B * m \in Nat
    BY <1>1, <1>3, <1>4
  <1>6. B * q <= k - 1 /\ n <= B * m
    BY <1>1, <1>3, <1>4, <1>5
  <1>7. B * q < B * m
    BY <1>5, <1>6
  <1>8. q < m
    BY <1>1, <1>3, <1>4, <1>7, Bigger
  <1> QED BY <1>3, <1>4, <1>8 DEF B, q, m, Blocks

LEMMA SameByte ==
  ASSUME NEW i \in Nat, NEW j \in Nat, i \div BLOCKSZ = j \div BLOCKSZ, i % BLOCKSZ = j % BLOCKSZ
  PROVE  i = j
  BY DivIs, ChachaAssumption

LEMMA BlocksIsNat ==
  ASSUME NEW n \in Nat \ {0}
  PROVE  Blocks(n) \in Nat \ {0}
  <1>1. 1 \in 1..n
    OBVIOUS
  <1> QED BY <1>1, BlockOfByte

-----------------------------------------------------------------------------
(* The stream cipher *)

LEMMA ValueIsNat ==
  ASSUME NEW c \in Counters
  PROVE  Value(c) \in Nat /\ c[1] \in 0..(U32 - 1) /\ c[2] \in 0..(U32 - 1) /\ c = <<c[1], c[2]>>
  BY ChachaAssumption DEF Counters, Value

LEMMA FirstCounter == <<0, 0>> \in Counters /\ Value(<<0, 0>>) = 0
  BY ChachaAssumption DEF Counters, Value

(* Until it wraps the counter counts.                                      *)
LEMMA AdvancedIs ==
  ASSUME NEW c \in Counters
  PROVE  /\ Advanced(c) \in Counters
         /\ Value(c) + 1 < U32 * U32 => Value(Advanced(c)) = Value(c) + 1
  <1> DEFINE U == U32
             l == c[1]
             h == c[2]
  <1>1. U \in Nat /\ U > 1 /\ l \in 0..(U - 1) /\ h \in 0..(U - 1)
    BY ChachaAssumption, ValueIsNat
  <1>2. Advanced(c) = <<(l + 1) % U, IF (l + 1) % U = 0 THEN (h + 1) % U ELSE h>>
    BY DEF Advanced
  <1>3. Value(c) = l + U * h
    BY DEF Value
  <1>4. ASSUME NEW i \in 0..(U - 1) PROVE (i + 1 < U => (i + 1) % U = i + 1) /\ (i + 1 = U => (i + 1) % U = 0)
    BY <1>1
  <1> HIDE DEF U, l, h
  <1>5. CASE l + 1 < U
    <2>1. Advanced(c) = <<l + 1, h>>
      BY <1>1, <1>2, <1>4, <1>5
    <2>2. Advanced(c)[1] = l + 1 /\ Advanced(c)[2] = h
      BY <2>1
    <2>3. Advanced(c) \in Counters
      BY <1>1, <1>5, <2>1 DEF Counters, U
    <2>4. Value(Advanced(c)) = (l + 1) + U * h
      BY <2>2 DEF Value, U
    <2>5. U * h \in Nat
      BY <1>1
    <2> QED BY <1>1, <1>3, <2>3, <2>4, <2>5
  <1>6. CASE l + 1 = U
    <2>1. Advanced(c) = <<0, (h + 1) % U>>
      BY <1>1, <1>2, <1>4, <1>6
    <2>2. CASE h + 1 < U
      <3>1. Advanced(c) = <<0, h + 1>>
        BY <1>1, <1>4, <2>1, <2>2
      <3>2. Advanced(c) \in Counters
        BY <1>1, <2>2, <3>1 DEF Counters, U
      <3>3. Value(Advanced(c)) = 0 + U * (h + 1)
        BY <3>1 DEF Value, U
      <3>4. U * (h + 1) = U * h + U /\ U * h \in Nat
        BY <1>1
      <3> QED BY <1>1, <1>3, <1>6, <3>2, <3>3, <3>4
    <2>3. CASE h + 1 = U
      <3>1. Advanced(c) = <<0, 0>>
        BY <1>1, <1>4, <2>1, <2>3
      <3>2. Advanced(c) \in Counters
        BY <3>1, FirstCounter
      <3>3. Value(c) + 1 = U * U
        <4>1. U * (h + 1) = U * h + U /\ U * h \in Nat
          BY <1>1
        <4>2. U * (h + 1) = U * U
          BY <2>3
        <4>3. Value(c) + 1 = U * h + U
          BY <1>1, <1>3, <1>6, <4>1
        <4> QED BY <4>1, <4>2, <4>3
      <3>4. Value(c) + 1 \in Nat
        BY ValueIsNat
      <3>5. ~ (Value(c) + 1 < U32 * U32)
        <4>1. Value(c) + 1 = U32 * U32
          BY <3>3 DEF U
        <4> QED BY <3>4, <4>1
      <3> QED BY <3>2, <3>5
    <2> QED BY <1>1, <2>2, <2>3
  <1> QED BY <1>1, <1>5, <1>6

(* The counters of n blocks from c on.                                     *)
Counting(f, c, n) ==
  /\ f \in [0..n -> Counters]
  /\ f[0] = c
  /\ \A k \in 1..n : f[k] = Advanced(f[k - 1])

LEMMA CountingExists ==
  ASSUME NEW c \in Counters, NEW n \in Nat
  PROVE  \E f : Counting(f, c, n)
  <1> DEFINE S == {m \in Nat : \E f : Counting(f, c, m)}
  <1>1. 0 \in S
    <2> DEFINE f == [k \in 0..0 |-> c]
    <2>1. Counting(f, c, 0)
      BY DEF Counting
    <2> QED BY <2>1
  <1>2. ASSUME NEW m \in Nat, m \in S PROVE m + 1 \in S
    <2>1. PICK f : Counting(f, c, m)
      BY <1>2
    <2> DEFINE g == [k \in 0..(m + 1) |-> IF k = m + 1 THEN Advanced(f[m]) ELSE f[k]]
    <2>2. f[m] \in Counters /\ Advanced(f[m]) \in Counters
      BY <2>1, AdvancedIs DEF Counting
    <2>3. g \in [0..(m + 1) -> Counters] /\ g[0] = c
      BY <2>1, <2>2 DEF Counting
    <2>4. \A k \in 1..(m + 1) : g[k] = Advanced(g[k - 1])
      <3> SUFFICES ASSUME NEW k \in 1..(m + 1) PROVE g[k] = Advanced(g[k - 1])
        OBVIOUS
      <3>1. CASE k = m + 1
        BY <3>1
      <3>2. CASE k # m + 1
        <4>1. k \in 1..m /\ k - 1 \in 0..m /\ k - 1 # m + 1
          BY <3>2
        <4> QED BY <2>1, <4>1 DEF Counting
      <3> QED BY <3>1, <3>2
    <2> HIDE DEF g
    <2>5. Counting(g, c, m + 1)
      BY <2>3, <2>4 DEF Counting
    <2> QED BY <2>5
  <1> HIDE DEF S
  <1>3. Nat \subseteq S
    BY <1>1, <1>2, NatInSet
  <1> QED BY <1>3 DEF S

LEMMA CountingValues ==
  ASSUME NEW c \in Counters, NEW n \in Nat, NEW f, Counting(f, c, n), NEW k \in 0..n
  PROVE  f[k] \in Counters /\ (Value(c) + k < U32 * U32 => Value(f[k]) = Value(c) + k)
  <1> DEFINE S == {m \in Nat : m <= n /\ Value(c) + m < U32 * U32 => Value(f[m]) = Value(c) + m}
  <1>1. Value(c) \in Nat /\ U32 * U32 \in Nat
    BY ValueIsNat, ChachaAssumption
  <1>2. 0 \in S
    BY <1>1 DEF Counting
  <1>3. ASSUME NEW m \in Nat, m \in S PROVE m + 1 \in S
    <2> SUFFICES ASSUME m + 1 <= n, Value(c) + (m + 1) < U32 * U32 PROVE Value(f[m + 1]) = Value(c) + (m + 1)
      OBVIOUS
    <2>1. m + 1 \in 1..n /\ (m + 1) - 1 = m /\ m \in 0..n
      OBVIOUS
    <2>2. f[m + 1] = Advanced(f[m]) /\ f[m] \in Counters
      BY <2>1 DEF Counting
    <2>3. Value(f[m]) = Value(c) + m
      BY <1>1, <1>3, <2>1
    <2>4. Value(f[m]) + 1 < U32 * U32
      BY <1>1, <2>3
    <2> QED BY <1>1, <2>2, <2>3, <2>4, AdvancedIs
  <1> HIDE DEF S
  <1>4. Nat \subseteq S
    BY <1>2, <1>3, NatInSet
  <1>5. k \in S /\ f[k] \in Counters
    BY <1>4 DEF Counting
  <1> QED BY <1>5 DEF S

InputType == [key : Seq(Parts), counter : Counters]

(* Every byte of keystream has the key, the number of its block and its    *)
(* place in that.                                                          *)
ByteAt(b, x, k) ==
  /\ b \in Keystreams /\ b[1] = x.key /\ b[3] = (k - 1) % BLOCKSZ
  /\ Value(b[2]) = Value(x.counter) + (k - 1) \div BLOCKSZ

LEMMA KeystreamIs ==
  ASSUME NEW x \in InputType, NEW n \in Nat, Value(x.counter) + Blocks(n) <= U32 * U32, Blocks(n) \in Nat
  PROVE  /\ \A k \in 1..n : ByteAt(chacha_encrypt_bytes(x, n).stream[k], x, k)
         /\ chacha_encrypt_bytes(x, n).input \in InputType
         /\ chacha_encrypt_bytes(x, n).input.key = x.key
         /\ Value(x.counter) + Blocks(n) < U32 * U32 =>
              Value(chacha_encrypt_bytes(x, n).input.counter) = Value(x.counter) + Blocks(n)
  <1> DEFINE m == Blocks(n)
             c == x.counter
             Eq(g) == g = [k \in 0..m |-> IF k = 0 THEN c ELSE Advanced(g[k - 1])]
             f == CHOOSE g : Eq(g)
             r == chacha_encrypt_bytes(x, n)
  <1>1. r = [stream |-> [k \in 1..n |-> <<x.key, f[(k - 1) \div BLOCKSZ], (k - 1) % BLOCKSZ>>],
             input |-> [x EXCEPT !.counter = f[m]]]
    BY Zenon DEF chacha_encrypt_bytes
  <1>2. c \in Counters /\ m \in Nat /\ x.key \in Seq(Parts)
    BY DEF InputType
  <1>3. PICK g : Counting(g, c, m)
    BY <1>2, CountingExists
  <1> HIDE DEF m, c, r
  <1>4. Eq(g)
    <2>1. g = [k \in 0..m |-> g[k]]
      BY <1>3 DEF Counting
    <2>2. \A k \in 0..m : g[k] = IF k = 0 THEN c ELSE Advanced(g[k - 1])
      BY <1>2, <1>3 DEF Counting
    <2> QED BY <2>1, <2>2
  <1>5. Eq(f)
    <2> HIDE DEF Eq
    <2> QED BY <1>4
  <1> HIDE DEF f
  <1>6. Counting(f, c, m)
    <2> DEFINE S == {k \in Nat : k <= m => f[k] \in Counters}
    <2>1. \A k \in 0..m : f[k] = IF k = 0 THEN c ELSE Advanced(f[k - 1])
      BY <1>5
    <2>2. f = [k \in 0..m |-> f[k]]
      BY <1>5
    <2> HIDE DEF Eq
    <2>3. 0 \in S
      BY <1>2, <2>1
    <2>4. ASSUME NEW k \in Nat, k \in S PROVE k + 1 \in S
      <3> SUFFICES ASSUME k + 1 <= m PROVE f[k + 1] \in Counters
        OBVIOUS
      <3>1. k + 1 \in 0..m /\ k + 1 # 0 /\ (k + 1) - 1 = k
        OBVIOUS
      <3>2. f[k + 1] = Advanced(f[k]) /\ f[k] \in Counters
        BY <1>2, <2>1, <2>4, <3>1
      <3> QED BY <3>2, AdvancedIs
    <2> HIDE DEF S
    <2>5. Nat \subseteq S
      BY <2>3, <2>4, NatInSet
    <2>6. \A k \in 0..m : f[k] \in Counters
      BY <1>2, <2>5 DEF S
    <2>7. f \in [0..m -> Counters]
      BY <2>2, <2>6
    <2>8. f[0] = c /\ \A k \in 1..m : f[k] = Advanced(f[k - 1])
      BY <1>2, <2>1
    <2> QED BY <2>7, <2>8 DEF Counting
  <1>7. ASSUME NEW k \in 0..m PROVE f[k] \in Counters /\ (Value(c) + k < U32 * U32 => Value(f[k]) = Value(c) + k)
    BY <1>2, <1>6, CountingValues
  <1>8. Value(c) \in Nat /\ U32 * U32 \in Nat /\ Value(c) + m <= U32 * U32
    BY <1>2, ValueIsNat, ChachaAssumption DEF c, m
  <1>9. ASSUME NEW k \in 1..n PROVE ByteAt(r.stream[k], x, k)
    <2> DEFINE q == (k - 1) \div BLOCKSZ
               t == (k - 1) % BLOCKSZ
    <2>1. q \in 0..(m - 1) /\ t \in 0..(BLOCKSZ - 1)
      BY BlockOfByte DEF m
    <2>2. r.stream[k] = <<x.key, f[q], t>>
      BY <1>1
    <2> HIDE DEF q, t
    <2>3. f[q] \in Counters /\ Value(f[q]) = Value(c) + q
      BY <1>2, <1>7, <1>8, <2>1
    <2>4. r.stream[k] \in Keystreams
      BY <1>2, <2>1, <2>2, <2>3 DEF Keystreams
    <2> QED BY <2>2, <2>3, <2>4 DEF ByteAt, c, q, t
  <1>10. r.input = [x EXCEPT !.counter = f[m]] /\ m \in 0..m
    BY <1>1, <1>2
  <1>11. f[m] \in Counters /\ (Value(c) + m < U32 * U32 => Value(f[m]) = Value(c) + m)
    BY <1>7, <1>10
  <1>12. r.input \in InputType /\ r.input.key = x.key /\ r.input.counter = f[m]
    BY <1>10, <1>11 DEF InputType
  <1> QED BY <1>9, <1>11, <1>12 DEF r, c, m

-----------------------------------------------------------------------------
(* The variables of a process *)

LEMMA BlocksGrow ==
  ASSUME NEW n \in Nat, NEW m \in Nat, n <= m
  PROVE  Blocks(n) <= Blocks(m) /\ Blocks(n) \in Nat /\ Blocks(m) \in Nat
  <1> DEFINE B == BLOCKSZ
             q == (n + B - 1) \div B
             r == (m + B - 1) \div B
  <1>1. B \in Nat \ {0}
    BY ChachaAssumption
  <1> HIDE DEF B
  <1>2. n + B - 1 \in Nat /\ m + B - 1 \in Nat
    BY <1>1
  <1>3. q \in Nat /\ (n + B - 1) % B \in 0..(B - 1) /\ n + B - 1 = B * q + ((n + B - 1) % B)
    BY <1>1, <1>2, DivIs
  <1>4. r \in Nat /\ (m + B - 1) % B \in 0..(B - 1) /\ m + B - 1 = B * r + ((m + B - 1) % B)
    BY <1>1, <1>2, DivIs
  <1> HIDE DEF q, r
  <1>5. B * q \in Nat /\ B * (r + 1) = B * r + B /\ B * r \in Nat
    BY <1>1, <1>3, <1>4
  <1>6. B * q < B * (r + 1)
    BY <1>1, <1>3, <1>4, <1>5
  <1>7. q < r + 1
    BY <1>1, <1>3, <1>4, <1>6, Bigger
  <1> QED BY <1>3, <1>4, <1>7 DEF B, q, r, Blocks

LEMMA SizesAre ==
  /\ KEYIV \in Nat \ {0} /\ RSBUFSZ \in Nat \ {0} /\ ValSize \in Nat \ {0} /\ REKEY_BASE \in Nat \ {0}
  /\ KEYIV < RSBUFSZ /\ ValSize <= RSBUFSZ - KEYIV
  /\ Blocks(KEYIV) \in Nat /\ Blocks(RSBUFSZ) \in Nat \ {0} /\ Blocks(ValSize) \in Nat
  /\ Blocks(KEYIV) <= Blocks(RSBUFSZ) /\ U32 * U32 \in Nat
  /\ Blocks(ValSize) + Blocks(RSBUFSZ) <= U32 * U32
  <1>1. /\ KEYIV \in Nat \ {0} /\ RSBUFSZ \in Nat \ {0} /\ ValSize \in Nat \ {0} /\ REKEY_BASE \in Nat \ {0}
        /\ RSBUFSZ >= KEYIV + ValSize /\ Blocks(ValSize) + Blocks(RSBUFSZ) <= U32 * U32
    BY Arc4randomAssumption
  <1>2. KEYIV < RSBUFSZ /\ ValSize <= RSBUFSZ - KEYIV
    BY <1>1
  <1>3. Blocks(RSBUFSZ) \in Nat \ {0} /\ Blocks(ValSize) \in Nat \ {0}
    BY <1>1, BlocksIsNat
  <1>4. Blocks(KEYIV) <= Blocks(RSBUFSZ) /\ Blocks(KEYIV) \in Nat
    BY <1>1, <1>2, BlocksGrow
  <1>5. U32 * U32 \in Nat
    BY ChachaAssumption
  <1> QED BY <1>1, <1>2, <1>3, <1>4, <1>5

LEMMA ZeroIsNoByte ==
  ASSUME NEW b \in Keystreams
  PROVE  b # Zero
  <1>1. b = <<b[1], b[2], b[3]>>
    BY DEF Keystreams
  <1> QED BY <1>1 DEF Zero

LEMMA ProcFields ==
  ASSUME NEW s \in ProcType
  PROVE  /\ s.pid \in Nat /\ s.rs_pid \in Nat /\ s.forked \in BOOLEAN
         /\ s.rs \in [have : Int, count : Int] /\ s.rs.have \in Int /\ s.rs.count \in Int
         /\ s.rsx \in [input : InputType, buf : Seq(Keystreams \cup {Zero})] /\ s.rsx.input \in InputType
         /\ Key(s) \in Seq(Parts) /\ Counter(s) \in Counters /\ Buf(s) \in Seq(Keystreams \cup {Zero})
         /\ s.rsx.input.key = Key(s) /\ s.rsx.input.counter = Counter(s)
  BY DEF ProcType, InputType, Key, Counter, Buf

(* The keystream that a rekeying makes, and its beginning that becomes the *)
(* key.                                                                    *)
LEMMA MadeBytes ==
  ASSUME NEW s \in ProcType, Sound(s)
  PROVE  LET made == chacha_encrypt_bytes(s.rsx.input, RSBUFSZ).stream IN
         /\ \A b \in KeyBytes(s) : b \in Keystreams /\ b[1] = Key(s)
         /\ \A k \in 1..RSBUFSZ :
              made[k] \in Keystreams /\ made[k][1] = Key(s) /\ ~ (Value(made[k][2]) < Value(Counter(s)))
         /\ \A k \in (KEYIV + 1)..RSBUFSZ : made[k] \notin KeyBytes(s)
         /\ \A k, l \in 1..RSBUFSZ : made[k] = made[l] => k = l
  <1> DEFINE x == s.rsx.input
             made == chacha_encrypt_bytes(x, RSBUFSZ).stream
             keys == chacha_encrypt_bytes(x, KEYIV).stream
             v == Value(x.counter)
  <1>1. x \in InputType /\ x.key = Key(s) /\ x.counter = Counter(s) /\ x.counter \in Counters
    BY ProcFields DEF InputType
  <1>2. v \in Nat /\ v <= Blocks(ValSize)
    BY <1>1, ValueIsNat DEF Sound
  <1>3. v + Blocks(RSBUFSZ) <= U32 * U32 /\ v + Blocks(KEYIV) <= U32 * U32
    BY <1>2, SizesAre
  <1>4. \A k \in 1..RSBUFSZ : ByteAt(made[k], x, k)
    BY <1>1, <1>3, SizesAre, KeystreamIs
  <1>5. \A k \in 1..KEYIV : ByteAt(keys[k], x, k)
    BY <1>1, <1>3, SizesAre, KeystreamIs
  <1>6. KeyBytes(s) = {keys[k] : k \in 1..KEYIV}
    BY DEF KeyBytes
  <1> HIDE DEF x, made, keys
  <1>7. ASSUME NEW b, NEW k \in Nat \ {0}, NEW l \in Nat \ {0}, ByteAt(b, x, k), ByteAt(b, x, l) PROVE k = l
    <2> DEFINE i == k - 1
               j == l - 1
    <2>1. i \in Nat /\ j \in Nat
      OBVIOUS
    <2>2. i % BLOCKSZ = j % BLOCKSZ /\ v + i \div BLOCKSZ = v + j \div BLOCKSZ
      BY <1>7 DEF ByteAt
    <2> HIDE DEF v, i, j
    <2>3. i \div BLOCKSZ = j \div BLOCKSZ
      BY <1>2, <2>1, <2>2, DivIs, ChachaAssumption
    <2>4. i = j
      BY <2>1, <2>2, <2>3, SameByte
    <2> QED BY <2>4 DEF i, j
  <1>8. ASSUME NEW k \in 1..RSBUFSZ
        PROVE  made[k] \in Keystreams /\ made[k][1] = Key(s) /\ ~ (Value(made[k][2]) < Value(Counter(s)))
    <2>1. ByteAt(made[k], x, k) /\ (k - 1) \div BLOCKSZ \in Nat
      <3>1. k - 1 \in Nat /\ BLOCKSZ \in Nat \ {0}
        BY ChachaAssumption
      <3>2. (k - 1) \div BLOCKSZ \in Nat
        BY <3>1, DivIs
      <3> QED BY <1>4, <3>2
    <2>2. Value(made[k][2]) = v + (k - 1) \div BLOCKSZ
      BY <2>1 DEF ByteAt
    <2>3. ~ (Value(made[k][2]) < v)
      BY <1>2, <2>1, <2>2
    <2> QED BY <1>1, <2>1, <2>3 DEF ByteAt
  <1>9. ASSUME NEW k \in (KEYIV + 1)..RSBUFSZ PROVE made[k] \notin KeyBytes(s)
    <2> SUFFICES ASSUME NEW l \in 1..KEYIV, made[k] = keys[l] PROVE FALSE
      BY <1>6
    <2>1. k \in 1..RSBUFSZ /\ k \in Nat \ {0} /\ l \in Nat \ {0} /\ k # l
      BY SizesAre
    <2>2. ByteAt(made[k], x, k) /\ ByteAt(made[k], x, l)
      BY <1>4, <1>5, <2>1
    <2> QED BY <1>7, <2>1, <2>2
  <1>10. ASSUME NEW k \in 1..RSBUFSZ, NEW l \in 1..RSBUFSZ, made[k] = made[l] PROVE k = l
    <2>1. ByteAt(made[k], x, k) /\ ByteAt(made[k], x, l) /\ k \in Nat \ {0} /\ l \in Nat \ {0}
      BY <1>4, <1>10
    <2> QED BY <1>7, <2>1
  <1>11. \A b \in KeyBytes(s) : b \in Keystreams /\ b[1] = Key(s)
    BY <1>1, <1>5, <1>6 DEF ByteAt
  <1> QED BY <1>8, <1>9, <1>10, <1>11 DEF made, x

(* What _rs_rekey leaves.                                                  *)
RekeyedFrom(s, t, dat) ==
  /\ t \in ProcType /\ t.pid = s.pid /\ t.rs_pid = s.rs_pid /\ t.forked = s.forked /\ t.rs.count = s.rs.count
  /\ Allocated(t) /\ Sound(t) /\ Whole(t)
  /\ Key(t) = Append(Key(s), <<Counter(s), dat>>) /\ Counter(t) = <<0, 0>>
  /\ \A k \in 1..RSBUFSZ : Buf(t)[k] # Zero => Buf(t)[k] \in Rest(t)
  /\ \A b \in Rest(t) :
       b \in Keystreams /\ b[1] = Key(s) /\ ~ (Value(b[2]) < Value(Counter(s))) /\ b \notin KeyBytes(s)

LEMMA RekeyedIs ==
  ASSUME NEW s \in ProcType, Sound(s), NEW dat \in Dats
  PROVE  RekeyedFrom(s, Rekeyed(s, dat), dat)
  <1> DEFINE made == chacha_encrypt_bytes(s.rsx.input, RSBUFSZ).stream
             buf == [k \in 1..RSBUFSZ |-> IF k <= KEYIV THEN Zero ELSE made[k]]
             ckey == Append(Key(s), <<Counter(s), dat>>)
             t == Rekeyed(s, dat)
  <1>1. t = [s EXCEPT !.rs.have = RSBUFSZ - KEYIV, !.rsx = [input |-> [key |-> ckey, counter |-> <<0, 0>>], buf |-> buf]]
    BY DEF Rekeyed, Keyed, KeyFrom, Key, Counter
  <1>2. /\ \A k \in 1..RSBUFSZ :
             made[k] \in Keystreams /\ made[k][1] = Key(s) /\ ~ (Value(made[k][2]) < Value(Counter(s)))
        /\ \A k \in (KEYIV + 1)..RSBUFSZ : made[k] \notin KeyBytes(s)
        /\ \A k, l \in 1..RSBUFSZ : made[k] = made[l] => k = l
    BY MadeBytes
  <1>3. ckey \in Seq(Parts) /\ ckey # << >> /\ Len(ckey) = Len(Key(s)) + 1 /\ Len(Key(s)) \in Nat
    <2>1. Key(s) \in Seq(Parts) /\ <<Counter(s), dat>> \in Parts
      BY ProcFields DEF Parts
    <2> DEFINE x == <<Counter(s), dat>>
    <2> HIDE DEF x
    <2>2. x \in Parts
      BY <2>1 DEF x
    <2>3. Append(Key(s), x) \in Seq(Parts) /\ Append(Key(s), x) # << >> /\ Len(Append(Key(s), x)) = Len(Key(s)) + 1
      BY <2>1, <2>2
    <2> QED BY <2>1, <2>3 DEF x
  <1> HIDE DEF made
  <1>4. /\ buf \in Seq(Keystreams \cup {Zero}) /\ Len(buf) = RSBUFSZ
        /\ \A k \in 1..RSBUFSZ : buf[k] = IF k <= KEYIV THEN Zero ELSE made[k]
    <2> DEFINE n == RSBUFSZ
               v(k) == IF k <= KEYIV THEN Zero ELSE made[k]
    <2>1. n \in Nat /\ \A k \in 1..n : v(k) \in Keystreams \cup {Zero}
      BY <1>2, SizesAre
    <2>2. buf = [k \in 1..n |-> v(k)]
      OBVIOUS
    <2>3. \A k \in 1..n : buf[k] = v(k)
      OBVIOUS
    <2> HIDE DEF v, n, buf
    <2>4. buf \in Seq(Keystreams \cup {Zero}) /\ Len(buf) = n
      BY <2>1, <2>2
    <2> QED BY <2>3, <2>4 DEF v, n
  <1> HIDE DEF buf, ckey, t
  <1>5. RSBUFSZ - KEYIV \in Nat /\ RSBUFSZ - KEYIV \in Int /\ KEYIV \in Nat /\ RSBUFSZ \in Nat
    BY SizesAre
  <1>6. /\ t.rs = [s.rs EXCEPT !.have = RSBUFSZ - KEYIV]
        /\ t.rsx = [input |-> [key |-> ckey, counter |-> <<0, 0>>], buf |-> buf]
        /\ t.pid = s.pid /\ t.rs_pid = s.rs_pid /\ t.forked = s.forked
        /\ t = [pid |-> s.pid, rs |-> t.rs, rsx |-> t.rsx, rs_pid |-> s.rs_pid, forked |-> s.forked]
    BY <1>1 DEF ProcType
  <1>7. t.rs \in [have : Int, count : Int] /\ t.rs.have = RSBUFSZ - KEYIV /\ t.rs.count = s.rs.count
    BY <1>5, <1>6, ProcFields
  <1>8. t.rsx \in [input : [key : Seq(Parts), counter : Counters], buf : Seq(Keystreams \cup {Zero})]
    <2>1. <<0, 0>> \in Counters
      BY FirstCounter
    <2> QED BY <1>3, <1>4, <1>6, <2>1
  <1>9. t \in ProcType
    <2>1. s.pid \in Nat /\ s.rs_pid \in Nat /\ s.forked \in BOOLEAN
      BY ProcFields
    <2> QED BY <1>6, <1>7, <1>8, <2>1 DEF ProcType
  <1>10. Key(t) = ckey /\ Counter(t) = <<0, 0>> /\ Buf(t) = buf
    BY <1>6 DEF Key, Counter, Buf
  <1>11. Fresh(t) = (KEYIV + 1)..RSBUFSZ
    <2>1. RSBUFSZ - t.rs.have = KEYIV
      BY <1>5, <1>7
    <2> QED BY <1>5, <2>1 DEF Fresh
  <1>12. \A k \in 1..RSBUFSZ : /\ k \in Fresh(t) => buf[k] = made[k] /\ buf[k] # Zero
                               /\ k \notin Fresh(t) => buf[k] = Zero
    <2> SUFFICES ASSUME NEW k \in 1..RSBUFSZ
                 PROVE  (k > KEYIV => buf[k] = made[k] /\ buf[k] # Zero) /\ (~ (k > KEYIV) => buf[k] = Zero)
      BY <1>5, <1>11
    <2>1. buf[k] = (IF k <= KEYIV THEN Zero ELSE made[k]) /\ made[k] # Zero
      BY <1>2, <1>4, ZeroIsNoByte
    <2> QED BY <1>5, <2>1
  <1>13. \A b \in Rest(t) :
           b \in Keystreams /\ b[1] = Key(s) /\ ~ (Value(b[2]) < Value(Counter(s))) /\ b \notin KeyBytes(s)
    <2> SUFFICES ASSUME NEW k \in Fresh(t)
                 PROVE  /\ buf[k] \in Keystreams /\ buf[k][1] = Key(s) /\ ~ (Value(buf[k][2]) < Value(Counter(s)))
                        /\ buf[k] \notin KeyBytes(s)
      BY <1>10 DEF Rest
    <2>1. k \in (KEYIV + 1)..RSBUFSZ /\ k \in 1..RSBUFSZ /\ buf[k] = made[k]
      BY <1>5, <1>11, <1>12
    <2> QED BY <1>2, <2>1
  <1>14. \A k \in 1..RSBUFSZ : Buf(t)[k] # Zero => Buf(t)[k] \in Rest(t)
    BY <1>10, <1>12 DEF Rest
  <1>15. Whole(t)
    <2>1. \A k, l \in Fresh(t) : buf[k] = buf[l] => k = l
      BY <1>2, <1>5, <1>11, <1>12
    <2> QED BY <1>10, <1>12, <2>1 DEF Whole
  <1>16. Sound(t)
    <2>1. t.rs.have \in 0..(RSBUFSZ - KEYIV) /\ t.rs.count \in Nat
      BY <1>5, <1>7 DEF Sound
    <2>2. Value(Counter(t)) <= Blocks(ValSize)
      BY <1>10, FirstCounter, SizesAre
    <2>3. \A k \in 1..RSBUFSZ : Buf(t)[k] # Zero => Len(Buf(t)[k][1]) < Len(Key(t))
      BY <1>3, <1>10, <1>13, <1>14
    <2> QED BY <1>3, <1>4, <1>10, <2>1, <2>2, <2>3 DEF Sound
  <1>17. Allocated(t)
    <2>1. t.rs.have # -1
      BY <1>5, <1>7
    <2> QED BY <2>1 DEF Allocated, NoRs
  <1> QED BY <1>6, <1>7, <1>9, <1>10, <1>13, <1>14, <1>15, <1>16, <1>17 DEF RekeyedFrom, t, ckey

(* What _rs_stir leaves, and the bytes that its count is made of.          *)
StirredFrom(s, t, e) ==
  /\ t \in ProcType /\ t.pid = s.pid /\ t.rs_pid = s.rs_pid /\ t.forked = s.forked
  /\ Allocated(t) /\ Sound(t) /\ Whole(t) /\ Rest(t) = {}
  /\ Key(t) = IF Allocated(s) THEN Append(Key(s), <<Counter(s), <<"entropy", e>>>>) ELSE << <<"entropy", e>> >>
  /\ \A k \in 1..RSBUFSZ : Buf(t)[k] = Zero
  /\ \A b \in FuzzBytes(s) : b \in Keystreams /\ b[1] = Key(t) /\ Value(b[2]) < Value(Counter(t))

LEMMA SeededIs ==
  ASSUME NEW s \in ProcType, Allocated(s) => Sound(s), entropy \in Nat
  PROVE  /\ Seeded(s) \in ProcType /\ Counter(Seeded(s)) = <<0, 0>>
         /\ Seeded(s).pid = s.pid /\ Seeded(s).rs_pid = s.rs_pid /\ Seeded(s).forked = s.forked
         /\ Key(Seeded(s)) # << >>
         /\ Key(Seeded(s)) = IF Allocated(s) THEN Append(Key(s), <<Counter(s), <<"entropy", entropy>>>>)
                             ELSE << <<"entropy", entropy>> >>
  <1>1. CASE Allocated(s)
    <2> DEFINE dat == <<"entropy", entropy>>
    <2>1. dat \in Dats
      BY DEF Dats
    <2>2. Seeded(s) = Rekeyed(s, dat)
      BY <1>1 DEF Seeded
    <2> HIDE DEF dat
    <2>3. RekeyedFrom(s, Seeded(s), dat)
      BY <1>1, <2>1, <2>2, RekeyedIs
    <2>4. /\ Seeded(s) \in ProcType /\ Counter(Seeded(s)) = <<0, 0>>
          /\ Seeded(s).pid = s.pid /\ Seeded(s).rs_pid = s.rs_pid /\ Seeded(s).forked = s.forked
          /\ Key(Seeded(s)) # << >> /\ Key(Seeded(s)) = Append(Key(s), <<Counter(s), dat>>)
      BY <2>3 DEF RekeyedFrom, Sound
    <2> QED BY <1>1, <2>4 DEF dat
  <1>2. CASE ~ Allocated(s)
    <2> DEFINE ckey == << <<"entropy", entropy>> >>
    <2>1. ckey \in Seq(Parts) /\ ckey # << >>
      <3>1. <<"entropy", entropy>> \in Parts
        BY DEF Parts
      <3> QED BY <3>1
    <2>2. Seeded(s) = [s EXCEPT !.rsx.input = [key |-> ckey, counter |-> <<0, 0>>]]
      BY <1>2 DEF Seeded, Keyed
    <2> HIDE DEF ckey
    <2>3. <<0, 0>> \in Counters
      BY FirstCounter
    <2> DEFINE in == [key |-> ckey, counter |-> <<0, 0>>]
    <2>4. in \in InputType /\ in.key = ckey /\ in.counter = <<0, 0>>
      BY <2>1, <2>3 DEF InputType
    <2> HIDE DEF in
    <2>5. Seeded(s) = [s EXCEPT !.rsx = [s.rsx EXCEPT !.input = in]]
      BY <2>2 DEF in
    <2>6. s.rsx \in [input : InputType, buf : Seq(Keystreams \cup {Zero})]
      BY ProcFields
    <2> DEFINE x == [s.rsx EXCEPT !.input = in]
    <2>7. x \in [input : InputType, buf : Seq(Keystreams \cup {Zero})] /\ x.input = in
      BY <2>4, <2>6
    <2> HIDE DEF x
    <2>8. Seeded(s) = [s EXCEPT !.rsx = x]
      BY <2>5 DEF x
    <2>9. Seeded(s) \in ProcType /\ Seeded(s).rsx = x /\ Seeded(s).pid = s.pid /\ Seeded(s).rs_pid = s.rs_pid
          /\ Seeded(s).forked = s.forked
      BY <2>7, <2>8 DEF ProcType, InputType
    <2>10. Key(Seeded(s)) = ckey /\ Counter(Seeded(s)) = <<0, 0>>
      BY <2>4, <2>7, <2>9 DEF Key, Counter
    <2> QED BY <1>2, <2>1, <2>9, <2>10 DEF ckey
  <1> QED BY <1>1, <1>2

LEMMA StirredIs ==
  ASSUME NEW s \in ProcType, Allocated(s) => Sound(s), entropy \in Nat, NEW fuzz \in Fuzz, NEW c \in Nat
  PROVE  LET t == [Stirred(s, fuzz) EXCEPT !.rs.count = c] IN
         StirredFrom(s, t, entropy) /\ t.rs.count = c /\ t.rs.have = 0
  <1> DEFINE u == Seeded(s)
             x == u.rsx.input
             r == chacha_encrypt_bytes(x, ValSize)
             buf == [k \in 1..RSBUFSZ |-> Zero]
             t == [Stirred(s, fuzz) EXCEPT !.rs.count = c]
  <1>1. /\ u \in ProcType /\ Counter(u) = <<0, 0>> /\ Key(u) # << >>
        /\ u.pid = s.pid /\ u.rs_pid = s.rs_pid /\ u.forked = s.forked
        /\ Key(u) = IF Allocated(s) THEN Append(Key(s), <<Counter(s), <<"entropy", entropy>>>>)
                    ELSE << <<"entropy", entropy>> >>
    BY SeededIs
  <1>2. /\ Stirred(s, fuzz) = [u EXCEPT !.rs = [have |-> 0, count |-> REKEY_BASE + fuzz],
                                        !.rsx = [input |-> r.input, buf |-> buf]]
        /\ FuzzBytes(s) = {r.stream[k] : k \in 1..ValSize}
    BY DEF Stirred, FuzzBytes
  <1> HIDE DEF u
  <1>3. x \in InputType /\ x.key = Key(u) /\ x.counter = <<0, 0>> /\ Value(x.counter) = 0
    BY <1>1, ProcFields, FirstCounter
  <1> HIDE DEF x
  <1>4. Blocks(ValSize) \in Nat /\ Blocks(ValSize) < U32 * U32 /\ U32 * U32 \in Nat
    BY SizesAre
  <1>5. /\ \A k \in 1..ValSize : ByteAt(r.stream[k], x, k)
        /\ r.input \in InputType /\ r.input.key = x.key /\ Value(r.input.counter) = Blocks(ValSize)
    <2>1. Value(x.counter) + Blocks(ValSize) <= U32 * U32 /\ Value(x.counter) + Blocks(ValSize) < U32 * U32
          /\ Value(x.counter) + Blocks(ValSize) = Blocks(ValSize) /\ ValSize \in Nat
      BY <1>3, <1>4, SizesAre
    <2> QED BY <1>3, <1>4, <2>1, KeystreamIs
  <1> HIDE DEF r
  <1>6. buf \in Seq(Keystreams \cup {Zero}) /\ Len(buf) = RSBUFSZ /\ \A k \in 1..RSBUFSZ : buf[k] = Zero
    <2> DEFINE n == RSBUFSZ
    <2>1. n \in Nat /\ buf = [k \in 1..n |-> Zero] /\ \A k \in 1..n : buf[k] = Zero
      BY SizesAre
    <2> HIDE DEF n, buf
    <2>2. buf \in Seq(Keystreams \cup {Zero}) /\ Len(buf) = n
      BY <2>1
    <2> QED BY <2>1, <2>2 DEF n
  <1> HIDE DEF buf
  <1> DEFINE rs == [have |-> 0, count |-> REKEY_BASE + fuzz]
             rsx == [input |-> r.input, buf |-> buf]
             w == [u EXCEPT !.rs = rs, !.rsx = rsx]
  <1>7. rs \in [have : Int, count : Int] /\ rsx \in [input : InputType, buf : Seq(Keystreams \cup {Zero})]
    BY <1>5, <1>6, SizesAre DEF Fuzz
  <1>8. rsx.input = r.input /\ rsx.buf = buf /\ rs.have = 0
    OBVIOUS
  <1> HIDE DEF rs, rsx
  <1>9. w \in ProcType /\ w.rs = rs /\ w.rsx = rsx /\ w.pid = s.pid /\ w.rs_pid = s.rs_pid /\ w.forked = s.forked
    BY <1>1, <1>7 DEF ProcType, InputType
  <1>10. t = [w EXCEPT !.rs.count = c]
    BY <1>2 DEF rs, rsx
  <1> HIDE DEF w, t
  <1>11. t \in ProcType /\ t.rs = [rs EXCEPT !.count = c] /\ t.rsx = rsx /\ t.pid = s.pid /\ t.rs_pid = s.rs_pid
         /\ t.forked = s.forked
    <2> DEFINE y == [rs EXCEPT !.count = c]
    <2>1. y \in [have : Int, count : Int]
      BY <1>7
    <2>2. t = [w EXCEPT !.rs = y]
      BY <1>9, <1>10
    <2> HIDE DEF y
    <2>3. t \in ProcType /\ t.rs = y /\ t.rsx = w.rsx /\ t.pid = w.pid /\ t.rs_pid = w.rs_pid /\ t.forked = w.forked
      BY <1>9, <2>1, <2>2 DEF ProcType
    <2> QED BY <1>9, <2>3 DEF y
  <1>12. t.rs.have = 0 /\ t.rs.count = c
    BY <1>7, <1>8, <1>11
  <1>13. Key(t) = Key(u) /\ Value(Counter(t)) = Blocks(ValSize) /\ Buf(t) = buf
    BY <1>3, <1>5, <1>8, <1>11 DEF Key, Counter, Buf
  <1>14. Fresh(t) = {}
    BY <1>12, SizesAre DEF Fresh
  <1>15. Allocated(t)
    <2>1. t.rs.have # -1
      BY <1>12
    <2> QED BY <2>1 DEF Allocated, NoRs
  <1>16. Sound(t)
    <2>1. RSBUFSZ - KEYIV \in Nat
      BY SizesAre
    <2> QED BY <1>1, <1>4, <1>6, <1>12, <1>13, <2>1 DEF Sound
  <1>17. Whole(t) /\ Rest(t) = {}
    BY <1>6, <1>13, <1>14 DEF Whole, Rest
  <1>18. ASSUME NEW b \in FuzzBytes(s)
         PROVE  b \in Keystreams /\ b[1] = Key(t) /\ Value(b[2]) < Value(Counter(t))
    <2>1. PICK k \in 1..ValSize : b = r.stream[k]
      BY <1>2
    <2>2. ByteAt(b, x, k)
      BY <1>5, <2>1
    <2>3. (k - 1) \div BLOCKSZ \in 0..(Blocks(ValSize) - 1)
      BY BlockOfByte, SizesAre
    <2>4. Value(b[2]) = 0 + (k - 1) \div BLOCKSZ
      BY <1>3, <2>2 DEF ByteAt
    <2>5. Value(b[2]) < Blocks(ValSize)
      BY <1>4, <2>3, <2>4
    <2> QED BY <1>3, <1>13, <2>2, <2>5 DEF ByteAt
  <1>19. StirredFrom(s, t, entropy)
    BY <1>1, <1>6, <1>11, <1>13, <1>15, <1>16, <1>17, <1>18 DEF StirredFrom
  <1> QED BY <1>12, <1>19 DEF t

(* What memcpy and memset of n bytes leave.                                *)
TakenFrom(s, t, T) ==
  /\ t \in ProcType /\ t.pid = s.pid /\ t.rs_pid = s.rs_pid /\ t.forked = s.forked /\ t.rs.count = s.rs.count
  /\ t.rsx.input = s.rsx.input
  /\ Allocated(t) /\ Sound(t) /\ Whole(t)
  /\ T \subseteq Rest(s) /\ Rest(t) = Rest(s) \ T
  /\ \A k \in 1..RSBUFSZ : Buf(t)[k] = Buf(s)[k] \/ Buf(t)[k] = Zero
  /\ \A k \in 1..RSBUFSZ : Buf(t)[k] \notin T

LEMMA TakenIs ==
  ASSUME NEW s \in ProcType, Sound(s), Whole(s), NEW n \in 0..s.rs.have
  PROVE  LET t == Taken(s, n)
             d == Keystream(s, n)
         IN /\ TakenFrom(s, t, GivenOut(d)) /\ t.rs.have = s.rs.have - n
            /\ d \in Seq(Keystreams) /\ Len(d) = n /\ \A k, l \in 1..n : d[k] = d[l] => k = l
  <1> DEFINE N == RSBUFSZ
             a == RSBUFSZ - s.rs.have
             old == Buf(s)
             buf == [k \in DOMAIN old |-> IF k - a \in 1..n THEN Zero ELSE old[k]]
             t == Taken(s, n)
             d == Keystream(s, n)
  <1>1. /\ N \in Nat /\ a \in 0..N /\ s.rs.have = N - a /\ a + n <= N /\ n \in Nat /\ s.rs.have \in Int
    BY SizesAre, SMTT(30) DEF Sound
  <1>2. old \in Seq(Keystreams \cup {Zero}) /\ Len(old) = N
    BY ProcFields DEF Sound
  <1>3. t = [s EXCEPT !.rs.have = s.rs.have - n, !.rsx.buf = buf]
    BY DEF Taken, Buf
  <1>4. d = SubSeq(old, a + 1, a + n)
    BY DEF Keystream, Buf
  <1> HIDE DEF t, d, old
  <1>5. buf \in Seq(Keystreams \cup {Zero}) /\ Len(buf) = N
        /\ \A k \in 1..N : buf[k] = IF k - a \in 1..n THEN Zero ELSE old[k]
    <2> DEFINE v(k) == IF k - a \in 1..n THEN Zero ELSE old[k]
    <2>1. DOMAIN old = 1..N /\ \A k \in 1..N : old[k] \in Keystreams \cup {Zero}
      BY <1>2
    <2>2. \A k \in 1..N : v(k) \in Keystreams \cup {Zero}
      BY <2>1
    <2>3. buf = [k \in 1..N |-> v(k)]
      BY <2>1
    <2>4. \A k \in 1..N : buf[k] = v(k)
      BY <2>1
    <2> HIDE DEF v, N, buf
    <2>5. buf \in Seq(Keystreams \cup {Zero}) /\ Len(buf) = N
      BY <1>1, <2>2, <2>3
    <2> QED BY <2>4, <2>5 DEF v
  <1> HIDE DEF buf
  <1> DEFINE rs == [s.rs EXCEPT !.have = s.rs.have - n]
             rsx == [s.rsx EXCEPT !.buf = buf]
  <1>6. /\ rs \in [have : Int, count : Int] /\ rs.have = N - (a + n) /\ rs.count = s.rs.count
        /\ rsx \in [input : InputType, buf : Seq(Keystreams \cup {Zero})] /\ rsx.input = s.rsx.input /\ rsx.buf = buf
    <2>1. s.rs \in [have : Int, count : Int] /\ s.rsx \in [input : InputType, buf : Seq(Keystreams \cup {Zero})]
      BY ProcFields
    <2>2. rs \in [have : Int, count : Int] /\ rs.have = N - (a + n) /\ rs.count = s.rs.count
      <3>1. s.rs.have - n \in Int /\ s.rs.have - n = N - (a + n)
        BY <1>1
      <3> QED BY <2>1, <3>1
    <2> DEFINE B == Seq(Keystreams \cup {Zero})
    <2>3. s.rsx \in [input : InputType, buf : B] /\ buf \in B
      BY <1>5, <2>1
    <2> HIDE DEF B
    <2>4. rsx \in [input : InputType, buf : B] /\ rsx.input = s.rsx.input /\ rsx.buf = buf
      BY <2>3
    <2> QED BY <2>2, <2>4 DEF B
  <1>7. t = [s EXCEPT !.rs = rs, !.rsx = rsx]
    BY <1>3 DEF ProcType
  <1> HIDE DEF rs, rsx, N, a
  <1>8. t \in ProcType /\ t.rs = rs /\ t.rsx = rsx /\ t.pid = s.pid /\ t.rs_pid = s.rs_pid /\ t.forked = s.forked
    BY <1>6, <1>7 DEF ProcType, InputType
  <1>9. Key(t) = Key(s) /\ Counter(t) = Counter(s) /\ Buf(t) = buf /\ t.rs.have = N - (a + n) /\ t.rs.count = s.rs.count
        /\ t.rsx.input = s.rsx.input
    BY <1>6, <1>8 DEF Key, Counter, Buf
  <1>10. Fresh(s) = (a + 1)..N
    <2>1. N - s.rs.have = a
      BY <1>1
    <2> QED BY <1>1, <2>1 DEF Fresh, N
  <1>11. Fresh(t) = (a + n + 1)..N
    <2>1. N - t.rs.have = a + n
      BY <1>1, <1>9
    <2> QED BY <1>1, <2>1 DEF Fresh, N
  <1>12. /\ \A k \in 1..N : k \in (a + 1)..N <=> old[k] # Zero
         /\ \A k, l \in (a + 1)..N : old[k] = old[l] => k = l
    BY <1>10 DEF Whole, old, N
  <1>13. \A k \in 1..N : (k \in (a + n + 1)..N => buf[k] = old[k]) /\ (k \notin (a + n + 1)..N => buf[k] = Zero)
    BY <1>1, <1>5, <1>12
  <1>14. Len(d) = n /\ \A k \in 1..n : d[k] = old[a + k] /\ a + k \in (a + 1)..N
    <2>1. \A k \in 1..n : a + k \in (a + 1)..N
      BY ONLY <1>1
    <2>2. Len(d) = n /\ \A k \in 1..n : d[k] = old[a + k]
      BY ONLY <1>1, <1>2, <1>4
    <2> QED BY <2>1, <2>2
  <1>15. \A k \in (a + 1)..N : old[k] \in Keystreams
    BY <1>1, <1>2, <1>12
  <1>16. d \in Seq(Keystreams)
    <2>1. d \in Seq(Keystreams \cup {Zero})
      BY <1>1, <1>2, <1>4
    <2>2. \A k \in 1..Len(d) : d[k] \in Keystreams
      BY <1>14, <1>15
    <2> QED BY <2>1, <2>2
  <1>17. \A k, l \in 1..n : d[k] = d[l] => k = l
    <2> SUFFICES ASSUME NEW k \in 1..n, NEW l \in 1..n, d[k] = d[l] PROVE k = l
      OBVIOUS
    <2>1. a + k = a + l
      BY <1>12, <1>14
    <2> QED BY <1>1, <2>1
  <1>18. Whole(t)
    <2>1. \A k \in 1..N : k \in (a + n + 1)..N <=> buf[k] # Zero
      BY <1>1, <1>12, <1>13
    <2>2. \A k, l \in (a + n + 1)..N : buf[k] = buf[l] => k = l
      BY <1>1, <1>12, <1>13
    <2> QED BY <1>9, <1>11, <2>1, <2>2 DEF Whole, N
  <1>19. \A k \in 1..N : buf[k] = old[k] \/ buf[k] = Zero
    BY <1>13
  <1>20. Allocated(t)
    <2>1. t.rs.have # -1
      BY <1>1, <1>9
    <2> QED BY <2>1 DEF Allocated, NoRs
  <1>21. Sound(t)
    <2>1. t.rs.have \in 0..(RSBUFSZ - KEYIV)
      <3>1. s.rs.have \in 0..(RSBUFSZ - KEYIV) /\ RSBUFSZ - KEYIV \in Nat
        BY SizesAre DEF Sound
      <3> QED BY <1>1, <1>9, <3>1
    <2>2. \A k \in 1..RSBUFSZ : buf[k] # Zero => Len(buf[k][1]) < Len(Key(s))
      <3>1. \A k \in 1..RSBUFSZ : old[k] # Zero => Len(old[k][1]) < Len(Key(s))
        BY DEF Sound, old
      <3> QED BY <1>19, <3>1 DEF N
    <2> QED BY <1>5, <1>9, <2>1, <2>2 DEF Sound, N
  <1>22. GivenOut(d) = {old[k] : k \in (a + 1)..(a + n)}
    <2>1. ASSUME NEW k \in (a + 1)..(a + n) PROVE old[k] \in GivenOut(d)
      <3>1. k - a \in 1..n /\ a + (k - a) = k
        BY <1>1
      <3> QED BY <1>14, <3>1 DEF GivenOut
    <2>2. ASSUME NEW k \in 1..Len(d) PROVE d[k] \in {old[l] : l \in (a + 1)..(a + n)}
      <3>1. a + k \in (a + 1)..(a + n) /\ d[k] = old[a + k]
        BY <1>1, <1>14
      <3> QED BY <3>1
    <2> QED BY <2>1, <2>2 DEF GivenOut
  <1>23. Rest(s) = {old[k] : k \in (a + 1)..N} /\ Rest(t) = {old[k] : k \in (a + n + 1)..N}
    <2>1. Rest(s) = {old[k] : k \in (a + 1)..N}
      BY <1>10 DEF Rest, old
    <2>2. Rest(t) = {buf[k] : k \in (a + n + 1)..N}
      BY <1>9, <1>11 DEF Rest
    <2>3. \A k \in (a + n + 1)..N : buf[k] = old[k]
      BY <1>1, <1>13
    <2> QED BY <2>1, <2>2, <2>3
  <1>24. GivenOut(d) \subseteq Rest(s) /\ Rest(t) = Rest(s) \ GivenOut(d)
    <2>1. \A k \in (a + 1)..N : k \in (a + 1)..(a + n) \/ k \in (a + n + 1)..N
      BY <1>1
    <2>2. (a + 1)..(a + n) \subseteq (a + 1)..N /\ (a + n + 1)..N \subseteq (a + 1)..N
      BY <1>1
    <2>3. \A k \in (a + 1)..(a + n) : \A l \in (a + n + 1)..N : old[k] # old[l]
      <3> SUFFICES ASSUME NEW k \in (a + 1)..(a + n), NEW l \in (a + n + 1)..N, old[k] = old[l] PROVE FALSE
        OBVIOUS
      <3>1. k = l
        BY <1>12, <2>2
      <3> QED BY <1>1, <3>1
    <2> QED BY <1>22, <1>23, <2>1, <2>2, <2>3
  <1>25. \A k \in 1..N : buf[k] \notin GivenOut(d)
    <2> SUFFICES ASSUME NEW k \in 1..N PROVE buf[k] \notin GivenOut(d)
      OBVIOUS
    <2>1. CASE k \in (a + n + 1)..N
      <3>1. buf[k] \in Rest(t)
        BY <1>13, <1>23, <2>1
      <3> QED BY <1>24, <3>1
    <2>2. CASE k \notin (a + n + 1)..N
      <3>1. buf[k] = Zero
        BY <1>13, <2>2
      <3> QED BY <1>16, <3>1, ZeroIsNoByte DEF GivenOut
    <2> QED BY <2>1, <2>2
  <1>26. TakenFrom(s, t, GivenOut(d))
    BY <1>8, <1>9, <1>18, <1>19, <1>20, <1>21, <1>24, <1>25 DEF TakenFrom, old, N
  <1>27. t.rs.have = s.rs.have - n
    BY <1>1, <1>9
  <1> QED BY <1>14, <1>16, <1>17, <1>26, <1>27 DEF t, d

-----------------------------------------------------------------------------
(* Keys *)

LEMMA UnderSelf ==
  ASSUME NEW k \in Seq(Parts)
  PROVE  Under(k, k) /\ ~ Parted(k, k)
  BY DEF Under, Parted

LEMMA UnderAppend ==
  ASSUME NEW j \in Seq(Parts), NEW k \in Seq(Parts), NEW x \in Parts
  PROVE  LET k2 == Append(k, x) IN
         /\ k2 \in Seq(Parts) /\ Len(k2) = Len(k) + 1 /\ k2[Len(k) + 1] = x /\ Under(k, k2) /\ ~ Under(k2, k)
         /\ Under(j, k2) => Under(j, k) \/ j = k2
         /\ Under(k2, j) => Under(k, j) /\ Len(k) < Len(j) /\ j[Len(k) + 1] = x
         /\ Parted(j, k) => Parted(j, k2)
  <1> DEFINE k2 == Append(k, x)
  <1>1. /\ k2 \in Seq(Parts) /\ Len(k2) = Len(k) + 1 /\ k2[Len(k) + 1] = x
        /\ \A i \in 1..Len(k) : k2[i] = k[i]
    OBVIOUS
  <1>2. Len(j) \in Nat /\ Len(k) \in Nat
    OBVIOUS
  <1> HIDE DEF k2
  <1>3. Under(k, k2) /\ ~ Under(k2, k)
    BY <1>1, <1>2 DEF Under
  <1>4. ASSUME Under(j, k2), ~ Under(j, k) PROVE j = k2
    <2>1. CASE Len(j) <= Len(k)
      <3>1. \A i \in 1..Len(j) : k[i] = j[i]
        BY <1>1, <1>2, <1>4, <2>1 DEF Under
      <3> QED BY <1>4, <2>1, <3>1 DEF Under
    <2>2. CASE ~ (Len(j) <= Len(k))
      <3>1. Len(j) = Len(k2) /\ \A i \in 1..Len(j) : k2[i] = j[i]
        BY <1>1, <1>2, <1>4, <2>2 DEF Under
      <3> QED BY <1>1, <3>1
    <2> QED BY <2>1, <2>2
  <1>5. ASSUME Under(k2, j) PROVE Under(k, j) /\ Len(k) < Len(j) /\ j[Len(k) + 1] = x
    BY <1>1, <1>2, <1>5 DEF Under
  <1>6. ASSUME Parted(j, k) PROVE Parted(j, k2)
    <2>1. Len(j) < Len(k) /\ Len(j) + 1 \in 1..Len(k)
      BY <1>2, <1>6 DEF Parted
    <2> QED BY <1>1, <1>2, <1>6, <2>1 DEF Parted
  <1> QED BY <1>1, <1>3, <1>4, <1>5, <1>6 DEF k2

(* What a caller gives is no entropy.                                      *)
Plain == {<<"nothing">>} \cup ({"dat"} \X Nat)

LEMMA PlainIs ==
  ASSUME NEW dat \in Plain
  PROVE  dat \in Dats /\ \A n : dat # <<"entropy", n>>
  <1>1. dat \in Dats
    BY DEF Plain, Dats
  <1>2. CASE dat = <<"nothing">>
    <2>1. \A n : Len(dat) # Len(<<"entropy", n>>)
      BY <1>2
    <2> QED BY <1>1, <2>1
  <1>3. CASE dat \in {"dat"} \X Nat
    BY <1>1, <1>3
  <1> QED BY <1>2, <1>3 DEF Plain

LEMMA NotParted ==
  ASSUME NEW j \in Seq(Parts), NEW k \in Seq(Parts), NEW c \in Counters, NEW dat \in Plain,
         Under(Append(k, <<c, dat>>), j)
  PROVE  Under(k, j) /\ j # k /\ ~ Parted(k, j)
  <1> DEFINE x == <<c, dat>>
  <1>1. x \in Parts /\ x[2] = dat /\ \A n : dat # <<"entropy", n>>
    BY PlainIs DEF Parts
  <1> HIDE DEF x
  <1>2. Under(k, j) /\ Len(k) < Len(j) /\ j[Len(k) + 1] = x
    BY <1>1, UnderAppend DEF x
  <1> QED BY <1>1, <1>2 DEF Parted

LEMMA KnownAppend ==
  ASSUME NEW k \in Seq(Parts), k # << >>, NEW e \in Nat, Known(k, e), NEW c \in Counters, NEW dat \in Plain
  PROVE  Known(Append(k, <<c, dat>>), e)
  <1> DEFINE x == <<c, dat>>
             k2 == Append(k, x)
  <1>1. x \in Parts /\ x[2] = dat /\ \A n : dat # <<"entropy", n>>
    BY PlainIs DEF Parts
  <1> HIDE DEF x
  <1>2. Len(k) \in Nat \ {0} /\ Len(k2) = Len(k) + 1 /\ k2[Len(k) + 1] = x /\ k2[1] = k[1]
        /\ \A i \in 2..Len(k) : k2[i] = k[i]
    BY <1>1
  <1> HIDE DEF k2
  <1>3. ASSUME NEW n \in Nat, k2[1] = <<"entropy", n>> \/ (\E i \in 2..Len(k2) : k2[i][2] = <<"entropy", n>>)
        PROVE  n < e
    <2>1. CASE k2[1] = <<"entropy", n>>
      BY <1>2, <2>1 DEF Known
    <2>2. CASE \E i \in 2..Len(k2) : k2[i][2] = <<"entropy", n>>
      <3>1. PICK i \in 2..Len(k2) : k2[i][2] = <<"entropy", n>>
        BY <2>2
      <3>2. i # Len(k) + 1
        BY <1>1, <1>2, <3>1
      <3>3. i \in 2..Len(k) /\ k[i][2] = <<"entropy", n>>
        BY <1>2, <3>1, <3>2
      <3> QED BY <3>3 DEF Known
    <2> QED BY <1>3, <2>1, <2>2
  <1>4. Known(k2, e)
    BY <1>3 DEF Known
  <1> QED BY <1>4 DEF k2, x

LEMMA KnownLater ==
  ASSUME NEW k, NEW e \in Nat, Known(k, e)
  PROVE  Known(k, e + 1)
  BY DEF Known

(* The key of a process that draws entropy is made of what no one knew.    *)
LEMMA FirstKey ==
  ASSUME NEW e \in Nat
  PROVE  LET k2 == << <<"entropy", e>> >> IN
         /\ k2 \in Seq(Parts) /\ k2 # << >> /\ Known(k2, e + 1)
         /\ \A j \in Seq(Parts) : Known(j, e) => ~ Under(k2, j) /\ (j # << >> => ~ Under(j, k2))
  <1> DEFINE x == <<"entropy", e>>
             k2 == <<x>>
  <1>1. x \in Parts /\ \A n : x = <<"entropy", n>> => n = e
    BY DEF Parts
  <1> HIDE DEF x
  <1>2. k2 \in Seq(Parts) /\ k2 # << >> /\ Len(k2) = 1 /\ k2[1] = x
    BY <1>1
  <1> HIDE DEF k2
  <1>3. Known(k2, e + 1)
    BY <1>1, <1>2 DEF Known
  <1>4. ASSUME NEW j \in Seq(Parts), Known(j, e) PROVE ~ Under(k2, j) /\ (j # << >> => ~ Under(j, k2))
    <2>1. j[1] # x
      BY <1>4 DEF Known, x
    <2>2. ~ Under(k2, j)
      BY <1>2, <2>1 DEF Under
    <2>3. ASSUME j # << >> PROVE ~ Under(j, k2)
      <3>1. Len(j) \in Nat \ {0} /\ 1 \in 1..Len(j)
        BY <2>3
      <3> QED BY <1>2, <2>1, <3>1 DEF Under
    <2> QED BY <2>2, <2>3
  <1> QED BY <1>2, <1>3, <1>4 DEF k2, x

LEMMA NextKey ==
  ASSUME NEW k \in Seq(Parts), k # << >>, NEW e \in Nat, Known(k, e), NEW c \in Counters
  PROVE  LET k2 == Append(k, <<c, <<"entropy", e>>>>) IN
         /\ k2 \in Seq(Parts) /\ k2 # << >> /\ Known(k2, e + 1) /\ Parted(k, k2)
         /\ \A j \in Seq(Parts) : Known(j, e) => ~ Under(k2, j)
  <1> DEFINE y == <<"entropy", e>>
             x == <<c, y>>
             k2 == Append(k, x)
  <1>1. x \in Parts /\ x[2] = y /\ \A n : y = <<"entropy", n>> => n = e
    BY DEF Parts, Dats
  <1> HIDE DEF x
  <1>2. Len(k) \in Nat \ {0} /\ k2 \in Seq(Parts) /\ Len(k2) = Len(k) + 1 /\ k2[Len(k) + 1] = x /\ k2[1] = k[1]
        /\ \A i \in 2..Len(k) : k2[i] = k[i]
    BY <1>1
  <1> HIDE DEF k2
  <1>3. k2 # << >>
    BY <1>2
  <1>4. Parted(k, k2)
    BY <1>1, <1>2 DEF Parted
  <1>5. ASSUME NEW n \in Nat, k2[1] = <<"entropy", n>> \/ (\E i \in 2..Len(k2) : k2[i][2] = <<"entropy", n>>)
        PROVE  n < e + 1
    <2>1. CASE k2[1] = <<"entropy", n>>
      BY <1>2, <2>1 DEF Known
    <2>2. CASE \E i \in 2..Len(k2) : k2[i][2] = <<"entropy", n>>
      <3>1. PICK i \in 2..Len(k2) : k2[i][2] = <<"entropy", n>>
        BY <2>2
      <3>2. CASE i = Len(k) + 1
        BY <1>1, <1>2, <3>1, <3>2
      <3>3. CASE i # Len(k) + 1
        <4>1. i \in 2..Len(k) /\ k[i][2] = <<"entropy", n>>
          BY <1>2, <3>1, <3>3
        <4> QED BY <4>1 DEF Known
      <3> QED BY <3>2, <3>3
    <2> QED BY <1>5, <2>1, <2>2
  <1>6. Known(k2, e + 1)
    BY <1>5 DEF Known
  <1>7. ASSUME NEW j \in Seq(Parts), Known(j, e), Under(k2, j) PROVE FALSE
    <2>1. Len(k) + 1 \in 2..Len(j) /\ j[Len(k) + 1] = x
      BY <1>2, <1>7 DEF Under
    <2>2. j[Len(k) + 1][2] = <<"entropy", e>>
      BY <1>1, <2>1
    <2> HIDE DEF y
    <2>3. e < e
      BY <1>7, <2>1, <2>2 DEF Known
    <2> QED BY <2>3
  <1> QED BY <1>2, <1>3, <1>4, <1>6, <1>7 DEF k2, x

LEMMA SameInput ==
  ASSUME NEW s \in ProcType, NEW t \in ProcType, Key(s) = Key(t), Counter(s) = Counter(t)
  PROVE  KeyBytes(s) = KeyBytes(t)
  <1>1. s.rsx.input = t.rsx.input
    <2>1. s.rsx.input \in InputType /\ t.rsx.input \in InputType
      BY ProcFields
    <2>2. s.rsx.input.key = t.rsx.input.key /\ s.rsx.input.counter = t.rsx.input.counter
      BY DEF Key, Counter
    <2> QED BY <2>1, <2>2 DEF InputType
  <1> QED BY <1>1 DEF KeyBytes

-----------------------------------------------------------------------------
(* No byte comes twice: what each change of a process leaves               *)

Memories == [Processes -> ProcType]

LEMMA GeneratorsAre ==
  ASSUME NEW m \in Memories, NEW e, Filled(m, e), NEW p \in Generators(m)
  PROVE  /\ p \in Processes /\ m[p] \in ProcType /\ Allocated(m[p]) /\ Sound(m[p])
         /\ Key(m[p]) \in Seq(Parts) /\ Key(m[p]) # << >> /\ Known(Key(m[p]), e) /\ Counter(m[p]) \in Counters
         /\ KeyBytes(m[p]) \subseteq Keystreams /\ \A b \in KeyBytes(m[p]) : b[1] = Key(m[p])
  <1>1. p \in Processes /\ m[p] \in ProcType /\ Allocated(m[p]) /\ Sound(m[p]) /\ Known(Key(m[p]), e)
    BY DEF Generators, Memories, Filled
  <1>2. Key(m[p]) \in Seq(Parts) /\ Counter(m[p]) \in Counters
    BY <1>1, ProcFields
  <1>3. Key(m[p]) # << >>
    BY <1>1 DEF Sound
  <1>4. \A b \in KeyBytes(m[p]) : b \in Keystreams /\ b[1] = Key(m[p])
    BY <1>1, MadeBytes
  <1> QED BY <1>1, <1>2, <1>3, <1>4

LEMMA RestIs ==
  ASSUME NEW s \in ProcType, Sound(s), Whole(s)
  PROVE  Rest(s) \subseteq Keystreams
  <1> SUFFICES ASSUME NEW k \in Fresh(s) PROVE Buf(s)[k] \in Keystreams
    BY DEF Rest
  <1>1. Buf(s) \in Seq(Keystreams \cup {Zero}) /\ Len(Buf(s)) = RSBUFSZ
    BY ProcFields DEF Sound
  <1>2. k \in 1..RSBUFSZ
    BY DEF Fresh
  <1>3. Buf(s)[k] \in Keystreams \cup {Zero} /\ Buf(s)[k] # Zero
    BY <1>1, <1>2 DEF Whole
  <1> QED BY <1>3

LEMMA SpokenIs ==
  ASSUME NEW m \in Memories, NEW L, NEW w \in SUBSET Keystreams, NEW d \in Seq(Keystreams), NEW e,
         Filled(m, e), Unbroken(m, L)
  PROVE  /\ \A b \in Spoken(m, L, w, d) : b \in Keystreams /\ b[1] \in Seq(Parts) /\ b[2] \in Counters
         /\ GivenOut(d) \subseteq Keystreams /\ \A p \in L : Rest(m[p]) \subseteq Keystreams
  <1>1. GivenOut(d) \subseteq Keystreams
    BY DEF GivenOut
  <1>2. ASSUME NEW p \in L PROVE Rest(m[p]) \subseteq Keystreams
    <2>1. p \in Generators(m) /\ Whole(m[p])
      BY DEF Unbroken
    <2>2. m[p] \in ProcType /\ Sound(m[p])
      BY <2>1, GeneratorsAre
    <2> QED BY <2>1, <2>2, RestIs
  <1>3. Buffered(m, L) \subseteq Keystreams
    BY <1>2 DEF Buffered
  <1>4. Spoken(m, L, w, d) \subseteq Keystreams
    BY <1>1, <1>3 DEF Spoken
  <1>5. \A b \in Keystreams : b[1] \in Seq(Parts) /\ b[2] \in Counters
    BY DEF Keystreams
  <1> QED BY <1>1, <1>2, <1>4, <1>5

(* Rekeying: the first bytes become the key, the others are new.           *)
LEMMA RekeyOnce ==
  ASSUME NEW m \in Memories, NEW L, NEW w \in SUBSET Keystreams, NEW d \in Seq(Keystreams), NEW e \in Nat,
         OnceInv(m, L, w, d, e), NEW c \in L, NEW dat \in Plain
  PROVE  OnceInv([m EXCEPT ![c] = Rekeyed(m[c], dat)], L, w \cup KeyBytes(m[c]), d, e)
  <1> DEFINE s == m[c]
             t == Rekeyed(s, dat)
             n == [m EXCEPT ![c] = t]
             w2 == w \cup KeyBytes(s)
             G == Generators(m)
             old == Spoken(m, L, w, d)
             new == KeyBytes(s) \cup Rest(t)
  <1>1. /\ Filled(m, e) /\ Unbroken(m, L) /\ Ahead(m, L, w, d, e) /\ Unmixed(m, L, w, d) /\ Distinct(d)
        /\ Descent(m, L) /\ InStep(m) /\ Unkeyed(m, L, d)
    BY DEF OnceInv
  <1>2. L \subseteq G /\ c \in G
    BY <1>1 DEF Unbroken
  <1>3. ASSUME NEW p \in G
        PROVE  /\ p \in Processes /\ m[p] \in ProcType /\ Allocated(m[p]) /\ Sound(m[p])
               /\ Key(m[p]) \in Seq(Parts) /\ Key(m[p]) # << >> /\ Known(Key(m[p]), e) /\ Counter(m[p]) \in Counters
               /\ KeyBytes(m[p]) \subseteq Keystreams /\ \A b \in KeyBytes(m[p]) : b[1] = Key(m[p])
    BY <1>1, GeneratorsAre
  <1>4. \A b \in old : b \in Keystreams /\ b[1] \in Seq(Parts) /\ b[2] \in Counters
    BY <1>1, SpokenIs
  <1>5. s \in ProcType /\ Sound(s) /\ Key(s) \in Seq(Parts) /\ Key(s) # << >> /\ Known(Key(s), e)
        /\ Counter(s) \in Counters /\ c \in Processes
    BY <1>2, <1>3
  <1>6. RekeyedFrom(s, t, dat)
    BY <1>5, PlainIs, RekeyedIs
  <1> HIDE DEF s, t
  <1>7. n \in Memories /\ n[c] = t /\ \A p \in Processes : p # c => n[p] = m[p]
    BY <1>5, <1>6 DEF Memories, RekeyedFrom
  <1> HIDE DEF n, G
  <1>8. Generators(n) = G /\ \A p \in G : p # c => n[p] = m[p]
    BY <1>2, <1>6, <1>7 DEF Generators, RekeyedFrom, G
  <1>9. /\ Sound(t) /\ Whole(t) /\ t \in ProcType
        /\ \A b \in Rest(t) : b \in Keystreams /\ b[1] = Key(s) /\ ~ (Value(b[2]) < Value(Counter(s))) /\ b \notin KeyBytes(s)
        /\ Key(t) = Append(Key(s), <<Counter(s), dat>>)
    BY <1>6 DEF RekeyedFrom
  <1>10. /\ Key(t) \in Seq(Parts) /\ ~ Under(Key(t), Key(s)) /\ Len(Key(s)) < Len(Key(t)) /\ Under(Key(s), Key(t))
         /\ \A j \in Seq(Parts) : /\ Under(j, Key(t)) => Under(j, Key(s)) \/ j = Key(t)
                                  /\ Parted(j, Key(s)) => Parted(j, Key(t))
                                  /\ Under(Key(t), j) => Under(Key(s), j) /\ j # Key(s) /\ ~ Parted(Key(s), j)
    <2> DEFINE x == <<Counter(s), dat>>
               k == Key(s)
               k2 == Append(k, x)
    <2>1. x \in Parts /\ k \in Seq(Parts)
      BY <1>5, PlainIs DEF Parts
    <2>2. \A j \in Seq(Parts) : Under(k2, j) => Under(k, j) /\ j # k /\ ~ Parted(k, j)
      BY <1>5, NotParted
    <2>3. Key(t) = k2
      BY <1>9
    <2> HIDE DEF x, k
    <2>4. /\ k2 \in Seq(Parts) /\ ~ Under(k2, k) /\ Len(k2) = Len(k) + 1 /\ Under(k, k2)
          /\ \A j \in Seq(Parts) : (Under(j, k2) => Under(j, k) \/ j = k2) /\ (Parted(j, k) => Parted(j, k2))
      BY <2>1, UnderAppend
    <2> HIDE DEF k2
    <2>5. Len(k) < Len(k2)
      BY <2>1, <2>4
    <2> QED BY <2>2, <2>3, <2>4, <2>5 DEF k
  <1>11. Known(Key(t), e)
    BY <1>5, <1>9, KnownAppend
  <1>12. \A b \in new : b \in Keystreams /\ b[1] = Key(s)
    BY <1>2, <1>3, <1>9 DEF s
  <1>13. \A b \in old : ~ Under(Key(t), b[1]) /\ b \notin Rest(t)
    <2> SUFFICES ASSUME NEW b \in old PROVE ~ Under(Key(t), b[1]) /\ b \notin Rest(t)
      OBVIOUS
    <2>1. Apart(s, b) /\ b[1] \in Seq(Parts)
      BY <1>1, <1>4 DEF Ahead, s
    <2>2. ~ Under(Key(t), b[1])
      BY <1>10, <2>1 DEF Apart
    <2>3. b \notin Rest(t)
      BY <1>5, <1>9, <2>1, UnderSelf DEF Apart
    <2> QED BY <2>2, <2>3
  <1>14. \A q \in G \ {c} : ~ Under(Key(t), Key(m[q])) /\ Key(m[q]) # Key(t)
    <2> SUFFICES ASSUME NEW q \in G \ {c}, Under(Key(t), Key(m[q])) \/ Key(m[q]) = Key(t) PROVE FALSE
      OBVIOUS
    <2>1. Under(Key(t), Key(m[q])) /\ Key(m[q]) \in Seq(Parts)
      BY <1>3, <1>10, UnderSelf
    <2>2. Under(Key(s), Key(m[q])) /\ Key(m[q]) # Key(s) /\ ~ Parted(Key(s), Key(m[q]))
      BY <1>10, <2>1
    <2> QED BY <1>1, <2>2 DEF Descent, G, s
  <1>15. \A p \in L : p # c => Rest(n[p]) = Rest(m[p])
    BY <1>2, <1>8
  <1>16. /\ Buffered(n, L) \subseteq Buffered(m, L) \cup Rest(t) /\ Rest(t) \subseteq Buffered(n, L)
         /\ Spoken(n, L, w2, d) \subseteq old \cup new
    <2>1. Buffered(n, L) \subseteq Buffered(m, L) \cup Rest(t)
      BY <1>7, <1>15 DEF Buffered
    <2>2. Rest(t) \subseteq Buffered(n, L)
      BY <1>7 DEF Buffered
    <2> QED BY <2>1, <2>2 DEF Spoken
  <1>17. KeyBytes(s) \cap (GivenOut(d) \cup Buffered(m, L)) = {}
    BY <1>1, <1>2 DEF Unkeyed, s, G
  <1>18. w \subseteq old /\ GivenOut(d) \subseteq old /\ Buffered(m, L) \subseteq old
    BY DEF Spoken
  <1> HIDE DEF old, new
  <1>19. Filled(n, e)
    BY <1>3, <1>7, <1>8, <1>9, <1>11 DEF Filled
  <1>20. Unbroken(n, L)
    BY <1>1, <1>2, <1>7, <1>8, <1>9 DEF Unbroken
  <1>21. Ahead(n, L, w2, d, e)
    <2>1. ASSUME NEW b \in old, NEW p \in L PROVE Known(b[1], e) /\ Apart(n[p], b)
      <3>1. Known(b[1], e) /\ Apart(m[p], b)
        BY <1>1 DEF Ahead, old
      <3>2. CASE p = c
        BY <1>7, <1>13, <3>1, <3>2 DEF Apart
      <3>3. CASE p # c
        BY <1>2, <1>8, <3>1, <3>3
      <3> QED BY <3>2, <3>3
    <2>2. ASSUME NEW b \in new, NEW p \in L PROVE Known(b[1], e) /\ Apart(n[p], b)
      <3>1. Known(b[1], e) /\ b[1] = Key(s)
        BY <1>5, <1>12
      <3>2. CASE p = c
        BY <1>7, <1>10, <3>1, <3>2 DEF Apart
      <3>3. CASE p # c
        <4>1. p \in G /\ c \in G \ {p}
          BY <1>2, <3>3
        <4>2. Under(Key(m[p]), Key(s)) => Parted(Key(m[p]), Key(s))
          BY <1>1, <4>1 DEF Descent, G, s
        <4> QED BY <1>8, <3>1, <3>3, <4>1, <4>2 DEF Apart
      <3> QED BY <3>1, <3>2, <3>3
    <2> QED BY <1>16, <2>1, <2>2 DEF Ahead
  <1>22. Unmixed(n, L, w2, d)
    <2>1. (w \cup GivenOut(d)) \cap Buffered(m, L) = {} /\ w \cap GivenOut(d) = {}
          /\ \A p, q \in L : p # q => Rest(m[p]) \cap Rest(m[q]) = {}
      BY <1>1 DEF Unmixed
    <2>2. KeyBytes(s) \cap Rest(t) = {}
      BY <1>9
    <2>3. (w2 \cup GivenOut(d)) \cap Buffered(n, L) = {} /\ w2 \cap GivenOut(d) = {}
      BY <1>13, <1>16, <1>17, <1>18, <2>1, <2>2
    <2>4. ASSUME NEW p \in L, p # c PROVE Rest(n[p]) \cap Rest(t) = {}
      <3>1. Rest(n[p]) \subseteq Buffered(m, L)
        BY <1>15, <2>4 DEF Buffered
      <3> QED BY <1>13, <1>18, <3>1
    <2>5. ASSUME NEW p \in L, NEW q \in L, p # q PROVE Rest(n[p]) \cap Rest(n[q]) = {}
      <3>1. CASE p = c
        BY <1>7, <2>4, <2>5, <3>1
      <3>2. CASE q = c
        BY <1>7, <2>4, <2>5, <3>2
      <3>3. CASE p # c /\ q # c
        BY <1>15, <2>1, <2>5, <3>3
      <3> QED BY <3>1, <3>2, <3>3
    <2> QED BY <2>3, <2>5 DEF Unmixed
  <1>23. Descent(n, L)
    <2> SUFFICES ASSUME NEW p \in L, NEW q \in G \ {p}, Under(Key(n[p]), Key(n[q]))
                 PROVE  Parted(Key(n[p]), Key(n[q])) \/ (q \notin L /\ Key(n[q]) = Key(n[p]))
      BY <1>8 DEF Descent
    <2>1. CASE p = c
      <3>1. q \in G \ {c} /\ Under(Key(t), Key(m[q]))
        BY <1>7, <1>8, <2>1
      <3> QED BY <1>14, <3>1
    <2>2. CASE q = c
      <3>1. p \in G \ {c} /\ Under(Key(m[p]), Key(t)) /\ Key(m[p]) \in Seq(Parts) /\ c \in G \ {p}
        BY <1>2, <1>3, <1>7, <1>8, <2>2
      <3>2. Under(Key(m[p]), Key(s))
        BY <1>10, <1>14, <3>1
      <3>3. Parted(Key(m[p]), Key(s))
        BY <1>1, <3>1, <3>2 DEF Descent, G, s
      <3>4. Parted(Key(m[p]), Key(t))
        BY <1>10, <3>1, <3>3
      <3> QED BY <1>7, <1>8, <2>2, <3>1, <3>4
    <2>3. CASE p # c /\ q # c
      BY <1>1, <1>2, <1>8, <2>3 DEF Descent, G
    <2> QED BY <2>1, <2>2, <2>3
  <1>24. InStep(n)
    <2> SUFFICES ASSUME NEW p \in G, NEW q \in G, Key(n[p]) = Key(n[q]), p # q PROVE Counter(n[p]) = Counter(n[q])
      BY <1>8 DEF InStep
    <2>1. p # c /\ q # c
      BY <1>7, <1>8, <1>14
    <2> QED BY <1>1, <1>8, <2>1 DEF InStep, G
  <1>25. Unkeyed(n, L, d)
    <2> SUFFICES ASSUME NEW q \in G, NEW b \in KeyBytes(n[q]) PROVE b \notin GivenOut(d) \cup Buffered(n, L)
      BY <1>8 DEF Unkeyed
    <2>1. CASE q = c
      <3>1. b[1] = Key(t) /\ Under(Key(t), b[1])
        <4>1. b \in KeyBytes(t) /\ t \in ProcType /\ Sound(t)
          BY <1>7, <1>9, <2>1
        <4>2. b[1] = Key(t)
          BY <4>1, MadeBytes
        <4> QED BY <1>10, <4>2, UnderSelf
      <3>2. b \notin old
        BY <1>13, <3>1
      <3>3. b \notin Rest(t)
        BY <1>9, <1>10, <3>1
      <3> QED BY <1>16, <1>18, <3>2, <3>3
    <2>2. CASE q # c
      <3>1. b \in KeyBytes(m[q])
        BY <1>8, <2>2
      <3>2. b \notin GivenOut(d) \cup Buffered(m, L)
        BY <1>1, <3>1 DEF Unkeyed, G
      <3>3. b \notin Rest(t)
        <4> SUFFICES ASSUME b \in Rest(t) PROVE FALSE
          OBVIOUS
        <4>1. Key(m[q]) = Key(s)
          BY <1>3, <1>9, <3>1
        <4>2. Counter(m[q]) = Counter(s)
          BY <1>1, <1>2, <4>1 DEF InStep, G, s
        <4>3. KeyBytes(m[q]) = KeyBytes(s)
          BY <1>3, <1>5, <4>1, <4>2, SameInput
        <4> QED BY <1>9, <3>1, <4>3
      <3> QED BY <1>16, <3>2, <3>3
    <2> QED BY <2>1, <2>2
  <1>26. OnceInv(n, L, w2, d, e)
    BY <1>1, <1>19, <1>20, <1>21, <1>22, <1>23, <1>24, <1>25 DEF OnceInv
  <1> QED BY <1>26 DEF n, w2, s, t

(* Stirring: the new key is made of entropy that no one knew.              *)
LEMMA StirOnce ==
  ASSUME NEW m \in Memories, NEW L, NEW w \in SUBSET Keystreams, NEW e \in Nat,
         OnceInv(m, L, w, << >>, e), NEW c \in Processes, NEW t, StirredFrom(m[c], t, e)
  PROVE  OnceInv([m EXCEPT ![c] = t], L \cup {c},
                 w \cup FuzzBytes(m[c]) \cup (IF Allocated(m[c]) THEN KeyBytes(m[c]) ELSE {}), << >>, e + 1)
  <1> DEFINE s == m[c]
             d == << >>
             n == [m EXCEPT ![c] = t]
             K == IF Allocated(s) THEN KeyBytes(s) ELSE {}
             w2 == w \cup FuzzBytes(s) \cup K
             L2 == L \cup {c}
             G == Generators(m)
             old == Spoken(m, L, w, d)
  <1>1. /\ Filled(m, e) /\ Unbroken(m, L) /\ Ahead(m, L, w, d, e) /\ Unmixed(m, L, w, d)
        /\ Descent(m, L) /\ InStep(m) /\ Unkeyed(m, L, d)
    BY DEF OnceInv
  <1>2. L \subseteq G
    BY <1>1 DEF Unbroken
  <1>3. ASSUME NEW p \in G
        PROVE  /\ p \in Processes /\ m[p] \in ProcType /\ Allocated(m[p]) /\ Sound(m[p])
               /\ Key(m[p]) \in Seq(Parts) /\ Key(m[p]) # << >> /\ Known(Key(m[p]), e) /\ Counter(m[p]) \in Counters
               /\ KeyBytes(m[p]) \subseteq Keystreams /\ \A b \in KeyBytes(m[p]) : b[1] = Key(m[p])
    BY <1>1, GeneratorsAre
  <1>4. /\ \A b \in old : b \in Keystreams /\ b[1] \in Seq(Parts) /\ b[2] \in Counters
        /\ d \in Seq(Keystreams) /\ GivenOut(d) = {}
    <2>1. d \in Seq(Keystreams) /\ GivenOut(d) = {}
      BY DEF GivenOut
    <2> QED BY <1>1, <2>1, SpokenIs
  <1>5. /\ Sound(t) /\ Whole(t) /\ t \in ProcType /\ Allocated(t) /\ Rest(t) = {}
        /\ Key(t) = IF Allocated(s) THEN Append(Key(s), <<Counter(s), <<"entropy", e>>>>) ELSE << <<"entropy", e>> >>
        /\ \A b \in FuzzBytes(s) : b \in Keystreams /\ b[1] = Key(t) /\ Value(b[2]) < Value(Counter(t))
    BY DEF StirredFrom
  <1>6. n \in Memories /\ n[c] = t /\ \A p \in Processes : p # c => n[p] = m[p]
    BY <1>5 DEF Memories
  <1>7. Allocated(s) <=> c \in G
    BY DEF Generators
  <1> HIDE DEF s, n, d
  <1>8. Generators(n) = G \cup {c} /\ \A p \in G : p # c => n[p] = m[p]
    BY <1>5, <1>6 DEF Generators
  <1> HIDE DEF G
  <1>9. ASSUME Allocated(s)
        PROVE  /\ c \in G /\ Key(s) \in Seq(Parts) /\ Key(s) # << >> /\ Known(Key(s), e) /\ Counter(s) \in Counters
               /\ s \in ProcType /\ \A b \in KeyBytes(s) : b \in Keystreams /\ b[1] = Key(s)
    BY <1>3, <1>7, <1>9 DEF s
  <1>10. /\ Key(t) \in Seq(Parts) /\ Key(t) # << >> /\ Known(Key(t), e + 1)
         /\ \A j \in Seq(Parts) : Known(j, e) => ~ Under(Key(t), j)
    <2>1. CASE Allocated(s)
      BY <1>5, <1>9, <2>1, NextKey
    <2>2. CASE ~ Allocated(s)
      BY <1>5, <2>2, FirstKey
    <2> QED BY <2>1, <2>2
  <1>11. \A j \in Seq(Parts) : Known(j, e) /\ j # << >> /\ Under(j, Key(t)) =>
           /\ Allocated(s) /\ Under(j, Key(s)) /\ Parted(Key(s), Key(t))
           /\ Parted(j, Key(s)) => Parted(j, Key(t))
    <2> SUFFICES ASSUME NEW j \in Seq(Parts), Known(j, e), j # << >>, Under(j, Key(t))
                 PROVE  /\ Allocated(s) /\ Under(j, Key(s)) /\ Parted(Key(s), Key(t))
                        /\ Parted(j, Key(s)) => Parted(j, Key(t))
      OBVIOUS
    <2>1. Allocated(s)
      <3> SUFFICES ASSUME ~ Allocated(s) PROVE FALSE
        OBVIOUS
      <3>1. Key(t) = << <<"entropy", e>> >>
        BY <1>5
      <3> QED BY <3>1, FirstKey
    <2> DEFINE x == <<Counter(s), <<"entropy", e>>>>
    <2>2. Key(t) = Append(Key(s), x)
      BY <1>5, <2>1
    <2>3. x \in Parts
      BY <1>9, <2>1 DEF Parts, Dats
    <2>4. Parted(Key(s), Append(Key(s), x))
      BY <1>9, <2>1, NextKey
    <2>5. j # Key(t)
      BY <1>10, UnderSelf
    <2> HIDE DEF x
    <2> QED BY <1>9, <2>1, <2>2, <2>3, <2>4, <2>5, UnderAppend
  <1>12. \A b \in old : Known(b[1], e) /\ ~ Under(Key(t), b[1])
    BY <1>1, <1>4, <1>10 DEF Ahead, old
  <1>13. \A q \in G : ~ Under(Key(t), Key(m[q])) /\ Key(m[q]) # Key(t)
    BY <1>3, <1>10, UnderSelf
  <1>14. \A b \in K : Allocated(s) /\ b \in KeyBytes(s) /\ b[1] = Key(s) /\ b \in Keystreams
    BY <1>9
  <1>15. \A p \in L : p # c => Rest(n[p]) = Rest(m[p])
    BY <1>2, <1>8
  <1>16. /\ Buffered(n, L2) \subseteq Buffered(m, L)
         /\ Spoken(n, L2, w2, d) \subseteq old \cup FuzzBytes(s) \cup K
    <2>1. Buffered(n, L2) \subseteq Buffered(m, L)
      BY <1>5, <1>6, <1>15 DEF Buffered
    <2> QED BY <2>1 DEF Spoken
  <1>17. w \subseteq old /\ Buffered(m, L) \subseteq old
    BY DEF Spoken
  <1> HIDE DEF old, K
  <1>18. Filled(n, e + 1)
    <2>1. \A p \in G : Known(Key(m[p]), e + 1)
      BY <1>3, KnownLater
    <2> QED BY <1>3, <1>5, <1>6, <1>8, <1>10, <2>1 DEF Filled
  <1>19. Unbroken(n, L2)
    BY <1>1, <1>2, <1>5, <1>6, <1>8 DEF Unbroken
  <1>20. ASSUME NEW p \in L, p # c
         PROVE  /\ p \in G /\ Key(m[p]) \in Seq(Parts) /\ Known(Key(m[p]), e) /\ Key(m[p]) # << >>
                /\ Under(Key(m[p]), Key(t)) => Parted(Key(m[p]), Key(t))
                /\ Allocated(s) /\ Under(Key(m[p]), Key(s)) => Parted(Key(m[p]), Key(s)) \/ Key(m[p]) = Key(s)
    <2>1. p \in G /\ Key(m[p]) \in Seq(Parts) /\ Known(Key(m[p]), e) /\ Key(m[p]) # << >>
      BY <1>2, <1>3
    <2>2. Allocated(s) /\ Under(Key(m[p]), Key(s)) => Parted(Key(m[p]), Key(s)) \/ Key(m[p]) = Key(s)
      BY <1>1, <1>7, <1>20 DEF Descent, G, s
    <2>3. Under(Key(m[p]), Key(t)) => Parted(Key(m[p]), Key(t))
      BY <1>11, <2>1, <2>2
    <2> QED BY <2>1, <2>2, <2>3
  <1>21. Ahead(n, L2, w2, d, e + 1)
    <2>1. ASSUME NEW b \in old, NEW p \in L2 PROVE Known(b[1], e + 1) /\ Apart(n[p], b)
      <3>1. Known(b[1], e) /\ Known(b[1], e + 1)
        BY <1>12, KnownLater
      <3>2. CASE p = c
        BY <1>6, <1>12, <3>1, <3>2 DEF Apart
      <3>3. CASE p # c
        <4>1. Apart(m[p], b) /\ p \in L
          BY <1>1, <3>3 DEF Ahead, old
        <4> QED BY <1>2, <1>8, <3>1, <3>3, <4>1
      <3> QED BY <3>2, <3>3
    <2>2. ASSUME NEW b \in FuzzBytes(s), NEW p \in L2 PROVE Known(b[1], e + 1) /\ Apart(n[p], b)
      <3>1. b[1] = Key(t) /\ Known(b[1], e + 1) /\ Value(b[2]) < Value(Counter(t))
        BY <1>5, <1>10
      <3>2. CASE p = c
        BY <1>6, <3>1, <3>2 DEF Apart
      <3>3. CASE p # c
        <4>1. p \in L /\ n[p] = m[p]
          BY <1>2, <1>8, <3>3
        <4> QED BY <1>20, <3>1, <3>3, <4>1 DEF Apart
      <3> QED BY <3>1, <3>2, <3>3
    <2>3. ASSUME NEW b \in K, NEW p \in L2 PROVE Known(b[1], e + 1) /\ Apart(n[p], b)
      <3>1. Allocated(s) /\ b[1] = Key(s) /\ b \in KeyBytes(s)
        BY <1>14
      <3>2. Key(s) \in Seq(Parts) /\ Known(Key(s), e) /\ Known(Key(s), e + 1) /\ ~ Under(Key(t), Key(s))
        BY <1>9, <1>10, <3>1, KnownLater
      <3>3. CASE p = c
        BY <1>6, <3>1, <3>2, <3>3 DEF Apart
      <3>4. CASE p # c
        <4>1. p \in L /\ n[p] = m[p] /\ p \in G /\ c \in G
          BY <1>2, <1>7, <1>8, <3>1, <3>4
        <4>2. CASE Key(m[p]) = Key(s)
          <5>1. Counter(m[p]) = Counter(s)
            BY <1>1, <4>1, <4>2 DEF InStep, G, s
          <5>2. KeyBytes(m[p]) = KeyBytes(s)
            BY <1>3, <1>9, <3>1, <4>1, <4>2, <5>1, SameInput
          <5> QED BY <3>1, <3>2, <4>1, <4>2, <5>2 DEF Apart
        <4>3. CASE Key(m[p]) # Key(s)
          BY <1>20, <3>1, <3>2, <3>4, <4>1, <4>3 DEF Apart
        <4> QED BY <4>2, <4>3
      <3> QED BY <3>1, <3>2, <3>3, <3>4
    <2> QED BY <1>16, <2>1, <2>2, <2>3 DEF Ahead
  <1>22. Unmixed(n, L2, w2, d)
    <2>1. (w \cup GivenOut(d)) \cap Buffered(m, L) = {} /\ \A p, q \in L : p # q => Rest(m[p]) \cap Rest(m[q]) = {}
      BY <1>1 DEF Unmixed
    <2>2. FuzzBytes(s) \cap Buffered(m, L) = {}
      BY <1>5, <1>10, <1>12, <1>17, UnderSelf
    <2>3. K \cap Buffered(m, L) = {}
      BY <1>1, <1>7, <1>14 DEF Unkeyed, s, G
    <2>4. (w2 \cup GivenOut(d)) \cap Buffered(n, L2) = {} /\ w2 \cap GivenOut(d) = {}
      BY <1>4, <1>16, <2>1, <2>2, <2>3
    <2>5. ASSUME NEW p \in L2, NEW q \in L2, p # q PROVE Rest(n[p]) \cap Rest(n[q]) = {}
      <3>1. CASE p = c \/ q = c
        BY <1>5, <1>6, <3>1
      <3>2. CASE p # c /\ q # c
        BY <1>15, <2>1, <2>5, <3>2
      <3> QED BY <3>1, <3>2
    <2> QED BY <2>4, <2>5 DEF Unmixed
  <1>23. Distinct(d)
    BY DEF Distinct, d
  <1>24. Descent(n, L2)
    <2> SUFFICES ASSUME NEW p \in L2, NEW q \in (G \cup {c}) \ {p}, Under(Key(n[p]), Key(n[q]))
                 PROVE  Parted(Key(n[p]), Key(n[q])) \/ (q \notin L2 /\ Key(n[q]) = Key(n[p]))
      BY <1>8 DEF Descent
    <2>1. CASE p = c
      BY <1>6, <1>8, <1>13, <2>1
    <2>2. CASE q = c
      <3>1. p \in L /\ p # c /\ n[p] = m[p]
        BY <1>2, <1>8, <2>2
      <3> QED BY <1>6, <1>20, <2>2, <3>1
    <2>3. CASE p # c /\ q # c
      BY <1>1, <1>2, <1>8, <2>3 DEF Descent, G
    <2> QED BY <2>1, <2>2, <2>3
  <1>25. InStep(n)
    <2> SUFFICES ASSUME NEW p \in G \cup {c}, NEW q \in G \cup {c}, Key(n[p]) = Key(n[q]), p # q
                 PROVE  Counter(n[p]) = Counter(n[q])
      BY <1>8 DEF InStep
    <2>1. p # c /\ q # c
      BY <1>6, <1>8, <1>13
    <2> QED BY <1>1, <1>8, <2>1 DEF InStep, G
  <1>26. Unkeyed(n, L2, d)
    <2> SUFFICES ASSUME NEW q \in G \cup {c}, NEW b \in KeyBytes(n[q]) PROVE b \notin Buffered(n, L2)
      BY <1>4, <1>8 DEF Unkeyed
    <2>1. CASE q = c
      <3>1. b[1] = Key(t)
        BY <1>5, <1>6, <2>1, MadeBytes
      <3> QED BY <1>10, <1>12, <1>16, <1>17, <3>1, UnderSelf
    <2>2. CASE q # c
      BY <1>1, <1>8, <1>16, <2>2 DEF Unkeyed, G
    <2> QED BY <2>1, <2>2
  <1>27. OnceInv(n, L2, w2, d, e + 1)
    BY <1>18, <1>19, <1>21, <1>22, <1>23, <1>24, <1>25, <1>26 DEF OnceInv
  <1> QED BY <1>27 DEF n, w2, L2, K, d, s

LEMMA GivenConcat ==
  ASSUME NEW d \in Seq(Keystreams), NEW x \in Seq(Keystreams)
  PROVE  /\ GivenOut(d \o x) = GivenOut(d) \cup GivenOut(x) /\ Len(d \o x) = Len(d) + Len(x) /\ d \o x \in Seq(Keystreams)
         /\ \A k \in 1..(Len(d) + Len(x)) : (d \o x)[k] = IF k <= Len(d) THEN d[k] ELSE x[k - Len(d)]
  <1> DEFINE y == d \o x
  <1>1. Len(y) = Len(d) + Len(x) /\ Len(d) \in Nat /\ Len(x) \in Nat /\ y \in Seq(Keystreams)
        /\ \A k \in 1..Len(y) : y[k] = IF k <= Len(d) THEN d[k] ELSE x[k - Len(d)]
    OBVIOUS
  <1> HIDE DEF y
  <1>2. \A k \in 1..Len(y) : y[k] \in GivenOut(d) \cup GivenOut(x)
    <2> SUFFICES ASSUME NEW k \in 1..Len(y) PROVE y[k] \in GivenOut(d) \cup GivenOut(x)
      OBVIOUS
    <2>1. CASE k <= Len(d)
      BY <1>1, <2>1 DEF GivenOut
    <2>2. CASE ~ (k <= Len(d))
      <3>1. k - Len(d) \in 1..Len(x)
        BY <1>1, <2>2
      <3> QED BY <1>1, <2>2, <3>1 DEF GivenOut
    <2> QED BY <2>1, <2>2
  <1>3. \A k \in 1..Len(d) : d[k] \in GivenOut(y)
    <2> SUFFICES ASSUME NEW k \in 1..Len(d) PROVE d[k] \in GivenOut(y)
      OBVIOUS
    <2>1. k \in 1..Len(y) /\ y[k] = d[k]
      BY <1>1
    <2> QED BY <2>1 DEF GivenOut
  <1>4. \A k \in 1..Len(x) : x[k] \in GivenOut(y)
    <2> SUFFICES ASSUME NEW k \in 1..Len(x) PROVE x[k] \in GivenOut(y)
      OBVIOUS
    <2>1. k + Len(d) \in 1..Len(y) /\ ~ (k + Len(d) <= Len(d)) /\ (k + Len(d)) - Len(d) = k
      BY <1>1
    <2>2. y[k + Len(d)] = x[k]
      BY <1>1, <2>1
    <2> QED BY <2>1, <2>2 DEF GivenOut
  <1>5. GivenOut(y) \subseteq GivenOut(d) \cup GivenOut(x)
    BY <1>2 DEF GivenOut
  <1>6. GivenOut(d) \subseteq GivenOut(y) /\ GivenOut(x) \subseteq GivenOut(y)
    BY <1>3, <1>4 DEF GivenOut
  <1> QED BY <1>1, <1>5, <1>6 DEF y

(* What is taken out of the buffer has been in it, and is no more.         *)
LEMMA TakeOnce ==
  ASSUME NEW m \in Memories, NEW L, NEW w \in SUBSET Keystreams, NEW d \in Seq(Keystreams), NEW e \in Nat,
         OnceInv(m, L, w, d, e), NEW c \in L, NEW i \in 0..m[c].rs.have
  PROVE  OnceInv([m EXCEPT ![c] = Taken(m[c], i)], L, w, d \o Keystream(m[c], i), e)
  <1> DEFINE s == m[c]
             t == Taken(s, i)
             x == Keystream(s, i)
             n == [m EXCEPT ![c] = t]
             d2 == d \o x
             G == Generators(m)
  <1>1. /\ Filled(m, e) /\ Unbroken(m, L) /\ Ahead(m, L, w, d, e) /\ Unmixed(m, L, w, d) /\ Distinct(d)
        /\ Descent(m, L) /\ InStep(m) /\ Unkeyed(m, L, d)
    BY DEF OnceInv
  <1>2. L \subseteq G /\ c \in G /\ Whole(s)
    BY <1>1 DEF Unbroken
  <1>3. ASSUME NEW p \in G PROVE p \in Processes /\ m[p] \in ProcType /\ Sound(m[p]) /\ Known(Key(m[p]), e)
    BY <1>1, GeneratorsAre
  <1>4. s \in ProcType /\ Sound(s) /\ c \in Processes /\ Known(Key(s), e)
    BY <1>2, <1>3
  <1>5. /\ TakenFrom(s, t, GivenOut(x)) /\ x \in Seq(Keystreams) /\ Len(x) = i
        /\ \A k, l \in 1..i : x[k] = x[l] => k = l
    BY <1>2, <1>4, TakenIs
  <1> HIDE DEF s, t, x
  <1>6. /\ t \in ProcType /\ Allocated(t) /\ Sound(t) /\ Whole(t) /\ Key(t) = Key(s) /\ Counter(t) = Counter(s)
        /\ KeyBytes(t) = KeyBytes(s) /\ GivenOut(x) \subseteq Rest(s) /\ Rest(t) = Rest(s) \ GivenOut(x)
    BY <1>5 DEF TakenFrom, Key, Counter, KeyBytes
  <1>7. n \in Memories /\ n[c] = t /\ \A p \in Processes : p # c => n[p] = m[p]
    BY <1>4, <1>6 DEF Memories
  <1> HIDE DEF n, G
  <1>8. Generators(n) = G /\ \A p \in G : p # c => n[p] = m[p]
    BY <1>2, <1>6, <1>7 DEF Generators, G
  <1>9. \A p \in G : Key(n[p]) = Key(m[p]) /\ Counter(n[p]) = Counter(m[p]) /\ KeyBytes(n[p]) = KeyBytes(m[p])
    BY <1>6, <1>7, <1>8 DEF s
  <1>10. \A p \in L : Rest(n[p]) = Rest(m[p]) \ GivenOut(x)
    <2> SUFFICES ASSUME NEW p \in L PROVE Rest(n[p]) = Rest(m[p]) \ GivenOut(x)
      OBVIOUS
    <2>1. CASE p = c
      BY <1>6, <1>7, <2>1 DEF s
    <2>2. CASE p # c
      <3>1. Rest(m[p]) \cap Rest(s) = {}
        BY <1>1, <2>2 DEF Unmixed, s
      <3> QED BY <1>2, <1>6, <1>8, <2>2, <3>1
    <2> QED BY <2>1, <2>2
  <1>11. Buffered(n, L) = Buffered(m, L) \ GivenOut(x) /\ GivenOut(x) \subseteq Buffered(m, L)
    BY <1>6, <1>10 DEF Buffered, s
  <1>12. GivenOut(d2) = GivenOut(d) \cup GivenOut(x) /\ Len(d2) = Len(d) + i
         /\ \A k \in 1..Len(d2) : d2[k] = IF k <= Len(d) THEN d[k] ELSE x[k - Len(d)]
    BY <1>5, GivenConcat
  <1> HIDE DEF d2
  <1>13. GivenOut(d2) \cup Buffered(n, L) = GivenOut(d) \cup Buffered(m, L) /\ Spoken(n, L, w, d2) = Spoken(m, L, w, d)
    BY <1>11, <1>12 DEF Spoken
  <1>14. Filled(n, e)
    BY <1>3, <1>6, <1>7, <1>8, <1>9 DEF Filled
  <1>15. Unbroken(n, L)
    BY <1>1, <1>2, <1>6, <1>7, <1>8 DEF Unbroken
  <1>16. Ahead(n, L, w, d2, e)
    <2>1. ASSUME NEW b \in Spoken(m, L, w, d), NEW p \in L PROVE Known(b[1], e) /\ Apart(n[p], b)
      BY <1>1, <1>2, <1>9 DEF Ahead, Apart
    <2>2. ASSUME NEW b \in Spoken(m, L, w, d) PROVE Known(b[1], e)
      BY <1>1 DEF Ahead
    <2> QED BY <1>13, <2>1, <2>2 DEF Ahead
  <1>17. Unmixed(n, L, w, d2)
    <2>1. (w \cup GivenOut(d)) \cap Buffered(m, L) = {} /\ w \cap GivenOut(d) = {}
          /\ \A p, q \in L : p # q => Rest(m[p]) \cap Rest(m[q]) = {}
      BY <1>1 DEF Unmixed
    <2>2. (w \cup GivenOut(d2)) \cap Buffered(n, L) = {} /\ w \cap GivenOut(d2) = {}
      BY <1>11, <1>12, <2>1
    <2>3. \A p, q \in L : p # q => Rest(n[p]) \cap Rest(n[q]) = {}
      BY <1>10, <2>1
    <2> QED BY <2>2, <2>3 DEF Unmixed
  <1>18. Distinct(d2)
    <2> SUFFICES ASSUME NEW k \in 1..Len(d2), NEW l \in 1..Len(d2), d2[k] = d2[l] PROVE k = l
      BY DEF Distinct
    <2>1. GivenOut(d) \cap GivenOut(x) = {}
      BY <1>1, <1>11 DEF Unmixed
    <2>2. Len(d) \in Nat /\ i \in Nat
      BY <1>5
    <2>3. ASSUME NEW j \in 1..Len(d2)
          PROVE  /\ j <= Len(d) => j \in 1..Len(d) /\ d2[j] = d[j] /\ d2[j] \in GivenOut(d)
                 /\ ~ (j <= Len(d)) => j - Len(d) \in 1..i /\ d2[j] = x[j - Len(d)] /\ d2[j] \in GivenOut(x)
      <3>1. CASE j <= Len(d)
        <4>1. j \in 1..Len(d) /\ d2[j] = d[j]
          BY <1>12, <2>2, <3>1
        <4> QED BY <3>1, <4>1 DEF GivenOut
      <3>2. CASE ~ (j <= Len(d))
        <4>1. j - Len(d) \in 1..i /\ d2[j] = x[j - Len(d)]
          BY <1>12, <2>2, <3>2
        <4> QED BY <1>5, <3>2, <4>1 DEF GivenOut
      <3> QED BY <3>1, <3>2
    <2>4. CASE k <= Len(d) /\ l <= Len(d)
      BY <1>1, <2>3, <2>4 DEF Distinct
    <2>5. CASE ~ (k <= Len(d)) /\ ~ (l <= Len(d))
      <3>1. k - Len(d) = l - Len(d)
        BY <1>5, <2>3, <2>5
      <3> QED BY <2>2, <3>1
    <2>6. CASE (k <= Len(d)) # (l <= Len(d))
      BY <2>1, <2>3, <2>6
    <2> QED BY <2>4, <2>5, <2>6
  <1>19. Descent(n, L)
    BY <1>1, <1>2, <1>8, <1>9 DEF Descent, G
  <1>20. InStep(n)
    BY <1>1, <1>8, <1>9 DEF InStep, G
  <1>21. Unkeyed(n, L, d2)
    BY <1>1, <1>8, <1>9, <1>13 DEF Unkeyed, G
  <1>22. OnceInv(n, L, w, d2, e)
    BY <1>14, <1>15, <1>16, <1>17, <1>18, <1>19, <1>20, <1>21 DEF OnceInv
  <1> QED BY <1>22 DEF n, d2, x, t, s

(* What the caller gets is spent.                                          *)
LEMMA HandOnce ==
  ASSUME NEW m, NEW L, NEW w, NEW d, NEW e, OnceInv(m, L, w, d, e)
  PROVE  OnceInv(m, L, w \cup GivenOut(d), << >>, e)
  <1>1. GivenOut(<< >>) = {} /\ Distinct(<< >>)
    BY DEF GivenOut, Distinct
  <1>2. Spoken(m, L, w \cup GivenOut(d), << >>) = Spoken(m, L, w, d)
    BY <1>1 DEF Spoken
  <1>3. Ahead(m, L, w \cup GivenOut(d), << >>, e)
    BY <1>2 DEF OnceInv, Ahead
  <1>4. Unmixed(m, L, w \cup GivenOut(d), << >>)
    BY <1>1 DEF OnceInv, Unmixed
  <1>5. Unkeyed(m, L, << >>)
    BY <1>1 DEF OnceInv, Unkeyed
  <1> QED BY <1>1, <1>3, <1>4, <1>5 DEF OnceInv

(* Copying a process, forgetting one and skipping a buffer bring no byte   *)
(* back.                                                                   *)
LEMMA FrameOnce ==
  ASSUME NEW m \in Memories, NEW L, NEW w \in SUBSET Keystreams, NEW d \in Seq(Keystreams), NEW e \in Nat,
         OnceInv(m, L, w, d, e), NEW n, NEW L2, L2 \subseteq L, L2 \subseteq Generators(n),
         \A p \in Generators(n) : Sound(n[p]) /\ \E o \in Generators(m) :
           n[p].rsx = m[o].rsx /\ (p \in L2 => o = p /\ n[p].rs.have = m[p].rs.have)
  PROVE  OnceInv(n, L2, w, d, e)
  <1> DEFINE G == Generators(m)
             H == Generators(n)
  <1>1. /\ Filled(m, e) /\ Unbroken(m, L) /\ Ahead(m, L, w, d, e) /\ Unmixed(m, L, w, d) /\ Distinct(d)
        /\ Descent(m, L) /\ InStep(m) /\ Unkeyed(m, L, d)
    BY DEF OnceInv
  <1>2. ASSUME NEW p \in H
        PROVE  Sound(n[p]) /\ \E o \in G : /\ Key(n[p]) = Key(m[o]) /\ Counter(n[p]) = Counter(m[o])
                                           /\ KeyBytes(n[p]) = KeyBytes(m[o]) /\ (p \in L2 => o = p)
    BY DEF Key, Counter, KeyBytes
  <1>3. ASSUME NEW p \in L2
        PROVE  /\ p \in L /\ p \in G /\ p \in H /\ Rest(n[p]) = Rest(m[p]) /\ Whole(n[p])
               /\ Key(n[p]) = Key(m[p]) /\ Counter(n[p]) = Counter(m[p]) /\ KeyBytes(n[p]) = KeyBytes(m[p])
    <2>1. p \in L /\ p \in G /\ p \in H /\ n[p].rsx = m[p].rsx /\ n[p].rs.have = m[p].rs.have /\ Whole(m[p])
      BY <1>1 DEF Unbroken
    <2>2. Fresh(n[p]) = Fresh(m[p]) /\ Buf(n[p]) = Buf(m[p])
      BY <2>1 DEF Fresh, Buf
    <2>3. Rest(n[p]) = Rest(m[p]) /\ Whole(n[p])
      BY <2>1, <2>2 DEF Rest, Whole
    <2> QED BY <2>1, <2>3 DEF Key, Counter, KeyBytes
  <1> HIDE DEF G, H
  <1>4. Buffered(n, L2) \subseteq Buffered(m, L) /\ Spoken(n, L2, w, d) \subseteq Spoken(m, L, w, d)
    <2>1. Buffered(n, L2) \subseteq Buffered(m, L)
      BY <1>3 DEF Buffered
    <2> QED BY <2>1 DEF Spoken
  <1>5. Filled(n, e)
    BY <1>1, <1>2 DEF Filled, G, H
  <1>6. Unbroken(n, L2)
    BY <1>3 DEF Unbroken
  <1>7. Ahead(n, L2, w, d, e)
    <2>1. ASSUME NEW b \in Spoken(m, L, w, d), NEW p \in L2 PROVE Apart(n[p], b)
      BY <1>1, <1>3 DEF Ahead, Apart
    <2>2. ASSUME NEW b \in Spoken(m, L, w, d) PROVE Known(b[1], e)
      BY <1>1 DEF Ahead
    <2> QED BY <1>4, <2>1, <2>2 DEF Ahead
  <1>8. Unmixed(n, L2, w, d)
    BY <1>1, <1>3, <1>4 DEF Unmixed
  <1>9. Descent(n, L2)
    <2> SUFFICES ASSUME NEW p \in L2, NEW q \in H \ {p}, Under(Key(n[p]), Key(n[q]))
                 PROVE  Parted(Key(n[p]), Key(n[q])) \/ (q \notin L2 /\ Key(n[q]) = Key(n[p]))
      BY DEF Descent, H
    <2>1. PICK o \in G : Key(n[q]) = Key(m[o]) /\ (q \in L2 => o = q)
      BY <1>2
    <2>2. p \in L /\ Key(n[p]) = Key(m[p])
      BY <1>3
    <2>3. CASE o = p
      BY <2>1, <2>2, <2>3
    <2>4. CASE o # p
      <3>1. Parted(Key(m[p]), Key(m[o])) \/ (o \notin L /\ Key(m[o]) = Key(m[p]))
        BY <1>1, <2>1, <2>2, <2>4 DEF Descent, G
      <3> QED BY <1>3, <2>1, <2>2, <3>1
    <2> QED BY <2>3, <2>4
  <1>10. InStep(n)
    <2> SUFFICES ASSUME NEW p \in H, NEW q \in H, Key(n[p]) = Key(n[q]) PROVE Counter(n[p]) = Counter(n[q])
      BY DEF InStep, H
    <2>1. PICK o \in G : Key(n[p]) = Key(m[o]) /\ Counter(n[p]) = Counter(m[o])
      BY <1>2
    <2>2. PICK r \in G : Key(n[q]) = Key(m[r]) /\ Counter(n[q]) = Counter(m[r])
      BY <1>2
    <2> QED BY <1>1, <2>1, <2>2 DEF InStep, G
  <1>11. Unkeyed(n, L2, d)
    <2> SUFFICES ASSUME NEW q \in H PROVE KeyBytes(n[q]) \cap (GivenOut(d) \cup Buffered(n, L2)) = {}
      BY DEF Unkeyed, H
    <2>1. PICK o \in G : KeyBytes(n[q]) = KeyBytes(m[o])
      BY <1>2
    <2> QED BY <1>1, <1>4, <2>1 DEF Unkeyed, G
  <1> QED BY <1>1, <1>5, <1>6, <1>7, <1>8, <1>9, <1>10, <1>11 DEF OnceInv

-----------------------------------------------------------------------------
(* What was given out is gone: what each change of a process leaves        *)

LEMMA SameBehind ==
  ASSUME NEW s, NEW t, NEW given, Behind(s, given), t.rsx = s.rsx, Allocated(s) => Allocated(t)
  PROVE  Behind(t, given)
  BY DEF Behind, Key, Buf

LEMMA RekeyBehind ==
  ASSUME NEW s \in ProcType, Sound(s), NEW dat \in Dats, NEW t, RekeyedFrom(s, t, dat),
         NEW given \in SUBSET Keystreams, Behind(s, given)
  PROVE  Behind(t, given)
  <1>1. Key(s) \in Seq(Parts) /\ Counter(s) \in Counters
    BY ProcFields
  <1>2. Len(Key(s)) \in Nat /\ Len(Key(t)) = Len(Key(s)) + 1
    <2> DEFINE x == <<Counter(s), dat>>
    <2>1. x \in Parts /\ Key(t) = Append(Key(s), x)
      BY <1>1 DEF Parts, RekeyedFrom
    <2> HIDE DEF x
    <2> QED BY <1>1, <2>1
  <1> SUFFICES ASSUME NEW b \in given
               PROVE  Len(b[1]) < Len(Key(t)) /\ \A k \in 1..RSBUFSZ : Buf(t)[k] # b
    BY DEF Behind, RekeyedFrom
  <1>3. b \in Keystreams /\ b[1] \in Seq(Parts) /\ Len(b[1]) \in Nat /\ Len(b[1]) < Len(Key(s)) /\ b # Zero
    <2>1. b \in Keystreams /\ b[1] \in Seq(Parts) /\ Len(b[1]) < Len(Key(s))
      BY DEF Behind, Keystreams
    <2> QED BY <2>1, ZeroIsNoByte
  <1>4. b \notin Rest(t)
    <2>1. b[1] # Key(s)
      BY <1>1, <1>3
    <2> QED BY <2>1 DEF RekeyedFrom
  <1>5. \A k \in 1..RSBUFSZ : Buf(t)[k] # b
    BY <1>3, <1>4 DEF RekeyedFrom
  <1> QED BY <1>2, <1>3, <1>5

LEMMA StirBehind ==
  ASSUME NEW s \in ProcType, NEW t, NEW e \in Nat, StirredFrom(s, t, e),
         NEW given \in SUBSET Keystreams, Behind(s, given)
  PROVE  Behind(t, given)
  <1> SUFFICES ASSUME NEW b \in given
               PROVE  Len(b[1]) < Len(Key(t)) /\ \A k \in 1..RSBUFSZ : Buf(t)[k] # b
    BY DEF Behind, StirredFrom
  <1>1. Allocated(s) /\ Key(s) \in Seq(Parts) /\ Counter(s) \in Counters
    BY ProcFields DEF Behind
  <1>2. Len(Key(s)) \in Nat /\ Len(Key(t)) = Len(Key(s)) + 1
    <2> DEFINE x == <<Counter(s), <<"entropy", e>>>>
    <2>1. x \in Parts /\ Key(t) = Append(Key(s), x)
      BY <1>1 DEF Parts, Dats, StirredFrom
    <2> HIDE DEF x
    <2> QED BY <1>1, <2>1
  <1>3. b[1] \in Seq(Parts) /\ Len(b[1]) \in Nat /\ Len(b[1]) < Len(Key(s)) /\ b # Zero
    <2>1. b \in Keystreams /\ b[1] \in Seq(Parts) /\ Len(b[1]) < Len(Key(s))
      BY DEF Behind, Keystreams
    <2> QED BY <2>1, ZeroIsNoByte
  <1> QED BY <1>2, <1>3 DEF StirredFrom

LEMMA TakeBehind ==
  ASSUME NEW s \in ProcType, Sound(s), Whole(s), Allocated(s), NEW t, NEW T, TakenFrom(s, t, T),
         NEW given \in SUBSET Keystreams, Behind(s, given)
  PROVE  Behind(t, given \cup T)
  <1> SUFFICES ASSUME NEW b \in given \cup T
               PROVE  Len(b[1]) < Len(Key(t)) /\ \A k \in 1..RSBUFSZ : Buf(t)[k] # b
    BY DEF Behind, TakenFrom
  <1>1. Key(t) = Key(s) /\ T \subseteq Rest(s) /\ Rest(s) \subseteq Keystreams
    BY RestIs DEF TakenFrom, Key
  <1>2. b # Zero
    BY <1>1, ZeroIsNoByte
  <1>3. CASE b \in T
    <2>1. PICK k \in Fresh(s) : b = Buf(s)[k]
      BY <1>1, <1>3 DEF Rest
    <2>2. Len(b[1]) < Len(Key(s))
      BY <1>2, <2>1 DEF Sound, Fresh
    <2> QED BY <1>1, <1>3, <2>2 DEF TakenFrom
  <1>4. CASE b \in given
    BY <1>1, <1>2, <1>4 DEF Behind, TakenFrom
  <1> QED BY <1>3, <1>4

(* Looking for a fork changes no key and no buffer.                        *)
LEMMA ForkDetectIs ==
  ASSUME NEW s \in ProcType, Allocated(s) => Sound(s)
  PROVE  LET t == ForkDetect(s) IN
         /\ t \in ProcType /\ t.rsx = s.rsx /\ t.pid = s.pid /\ (Allocated(t) <=> Allocated(s))
         /\ Allocated(t) => Sound(t)
         /\ IsFork(s) => t.rs.count <= 0
         /\ IsFork(s) /\ Allocated(s) => t.rs.count = 0
         /\ ~ IsFork(s) => t = s
         /\ IsFork(t) => t.rs.count <= 0
  <1>1. CASE ~ IsFork(s)
    BY <1>1 DEF ForkDetect
  <1>2. CASE IsFork(s)
    <2> DEFINE r == IF Allocated(s) THEN [have |-> 0, count |-> 0] ELSE s.rs
               t == [s EXCEPT !.rs_pid = s.pid, !.forked = FALSE, !.rs = r]
    <2>1. ForkDetect(s) = t
      BY <1>2 DEF ForkDetect, Reset
    <2>2. /\ s.pid \in Nat /\ s.rs \in [have : Int, count : Int]
      BY ProcFields
    <2>3. /\ r \in [have : Int, count : Int]
          /\ Allocated(s) => r.have = 0 /\ r.count = 0 /\ r # NoRs
          /\ ~ Allocated(s) => r = NoRs /\ r.count = -1
      <3>1. CASE Allocated(s)
        <4>1. r = [have |-> 0, count |-> 0]
          BY <3>1
        <4>2. r.have = 0 /\ NoRs.have = -1
          BY <4>1 DEF NoRs
        <4> QED BY <3>1, <4>1, <4>2
      <3>2. CASE ~ Allocated(s)
        <4>1. r = NoRs
          BY <3>2 DEF Allocated
        <4> QED BY <2>2, <3>2, <4>1 DEF NoRs
      <3> QED BY <3>1, <3>2
    <2> HIDE DEF r
    <2>4. t \in ProcType /\ t.rsx = s.rsx /\ t.pid = s.pid /\ t.rs = r
      BY <2>2, <2>3 DEF ProcType
    <2> HIDE DEF t
    <2>5. Allocated(t) <=> Allocated(s)
      BY <2>3, <2>4 DEF Allocated
    <2>6. Allocated(t) => Sound(t)
      <3> SUFFICES ASSUME Allocated(s) PROVE Sound(t)
        BY <2>5
      <3>1. t.rs.have \in 0..(RSBUFSZ - KEYIV) /\ t.rs.count \in Nat
        BY <2>3, <2>4, SizesAre
      <3>2. Key(t) = Key(s) /\ Counter(t) = Counter(s) /\ Buf(t) = Buf(s)
        BY <2>4 DEF Key, Counter, Buf
      <3> QED BY <3>1, <3>2 DEF Sound
    <2>7. t.rs.count <= 0 /\ (Allocated(s) => t.rs.count = 0)
      BY <2>3, <2>4
    <2> QED BY <1>2, <2>1, <2>4, <2>5, <2>6, <2>7
  <1> QED BY <1>1, <1>2

-----------------------------------------------------------------------------
(* The invariant *)

LEMMA ShrinkOnce ==
  ASSUME NEW m \in Memories, NEW L, NEW w \in SUBSET Keystreams, NEW d \in Seq(Keystreams), NEW e \in Nat,
         OnceInv(m, L, w, d, e), NEW L2, L2 \subseteq L
  PROVE  OnceInv(m, L2, w, d, e)
  <1>1. L2 \subseteq Generators(m) /\ \A p \in Generators(m) : Sound(m[p])
    BY DEF OnceInv, Unbroken, Filled
  <1> QED BY <1>1, FrameOnce

LEMMA NoneGiven == GivenOut(<< >>) = {} /\ << >> \in Seq(Keystreams) /\ Len(<< >>) = 0
  BY DEF GivenOut

LEMMA RandomFacts ==
  ASSUME RandomInv
  PROVE  /\ mem \in Memories /\ me \in Processes /\ left \in Nat /\ drawn \in Seq(Keystreams) /\ entropy \in Nat
         /\ used \in SUBSET Keystreams /\ past \in [Processes -> SUBSET Keystreams] /\ since \in [Processes -> Nat]
         /\ OnceInv(mem, Live, used, drawn, entropy) /\ Live \subseteq Generators(mem)
         /\ \A p \in Live : Whole(mem[p])
         /\ \A p \in Processes : /\ mem[p] \in ProcType /\ (Allocated(mem[p]) <=> p \in Generators(mem))
                                 /\ Allocated(mem[p]) => Sound(mem[p])
                                 /\ Behind(mem[p], AllGiven[p]) /\ AllGiven[p] \in SUBSET Keystreams
                                 /\ AllGiven[p] = past[p] \cup IF p = me THEN GivenOut(drawn) ELSE {}
         /\ rpc # "take" => drawn = << >> /\ AllGiven = past
  <1>1. CallInv /\ OnceInv(mem, Live, used, drawn, entropy) /\ PastInv(mem, AllGiven)
    BY DEF RandomInv
  <1>2. /\ mem \in Memories /\ me \in Processes /\ left \in Nat /\ drawn \in Seq(Keystreams) /\ entropy \in Nat
        /\ used \in SUBSET Keystreams /\ past \in [Processes -> SUBSET Keystreams] /\ since \in [Processes -> Nat]
        /\ rpc # "take" => drawn = << >>
    BY <1>1 DEF CallInv, Memories
  <1>3. Filled(mem, entropy) /\ Unbroken(mem, Live)
    BY <1>1 DEF OnceInv
  <1>4. ASSUME NEW p \in Processes
        PROVE  /\ mem[p] \in ProcType /\ (Allocated(mem[p]) <=> p \in Generators(mem))
               /\ Allocated(mem[p]) => Sound(mem[p])
               /\ Behind(mem[p], AllGiven[p]) /\ AllGiven[p] \in SUBSET Keystreams
               /\ AllGiven[p] = past[p] \cup IF p = me THEN GivenOut(drawn) ELSE {}
    <2>1. mem[p] \in ProcType
      BY <1>2 DEF Memories
    <2>2. Allocated(mem[p]) <=> p \in Generators(mem)
      BY DEF Generators
    <2>3. Allocated(mem[p]) => Sound(mem[p])
      BY <1>3, <2>2 DEF Filled
    <2>4. GivenOut(drawn) \subseteq Keystreams
      BY <1>2 DEF GivenOut
    <2>5. AllGiven[p] = past[p] \cup IF p = me THEN GivenOut(drawn) ELSE {}
      BY DEF AllGiven
    <2>6. AllGiven[p] \in SUBSET Keystreams
      BY <1>2, <2>4, <2>5
    <2>7. Behind(mem[p], AllGiven[p])
      BY <1>1 DEF PastInv
    <2> QED BY <2>1, <2>2, <2>3, <2>5, <2>6, <2>7
  <1>5. ASSUME rpc # "take" PROVE AllGiven = past
    <2>1. \A p \in Processes : AllGiven[p] = past[p]
      BY <1>2, <1>4, <1>5, NoneGiven
    <2> QED BY <1>2, <2>1 DEF AllGiven
  <1> QED BY <1>1, <1>2, <1>3, <1>4, <1>5 DEF Unbroken

(* What a step of the call leaves to others.                               *)
LEMMA LiveAfter ==
  ASSUME NEW c \in Processes, \A q \in Processes \ {c} : mem'[q] = mem[q], rpc' = "take" => me' = c
  PROVE  Live' \subseteq Live \cup {c}
  <1> SUFFICES ASSUME NEW q \in Live', q # c PROVE q \in Live
    OBVIOUS
  <1>1. q \in Processes /\ Allocated(mem'[q]) /\ ((~ IsFork(mem'[q]) /\ mem'[q].rs.count > 0) \/ (q = me' /\ rpc' = "take"))
    BY DEF Live, Generators
  <1>2. mem'[q] = mem[q]
    BY <1>1
  <1> QED BY <1>1, <1>2 DEF Live, Generators

LEMMA InvAfter ==
  ASSUME CallInv', OnceInv(mem', Live', used', drawn', entropy'), CountInv',
         \A p \in Processes : Behind(mem'[p], past'[p] \cup IF p = me' THEN GivenOut(drawn') ELSE {})
  PROVE  RandomInv'
  <1>1. \A p \in Processes : AllGiven'[p] = past'[p] \cup IF p = me' THEN GivenOut(drawn') ELSE {}
    BY DEF AllGiven
  <1>2. PastInv(mem', AllGiven')
    BY <1>1 DEF PastInv
  <1> QED BY <1>2 DEF RandomInv

LEMMA RandomFirst ==
  ASSUME RandomInit
  PROVE  RandomInv
  <1>1. PICK k \in FirstPids : mem = [p \in Processes |-> IF p = Nobody THEN [Gone EXCEPT !.pid = k] ELSE Gone]
    BY DEF RandomInit
  <1>2. /\ me = Nobody /\ request = "none" /\ left = 0 /\ drawn = << >>
        /\ rpc = "idle" /\ entropy = 0 /\ used = {} /\ past = [p \in Processes |-> {}]
        /\ since = [p \in Processes |-> 0]
    BY DEF RandomInit
  <1>3. me \in Processes /\ k \in Nat
    BY <1>2, Arc4randomAssumption DEF Nobody
  <1>4. mem \in Memories /\ \A p \in Processes : ~ Allocated(mem[p])
    <2>1. Gone \in ProcType /\ Gone.rs = NoRs
      <3>1. <<0, 0>> \in Counters /\ << >> \in Seq(Parts) /\ << >> \in Seq(Keystreams \cup {Zero})
        BY FirstCounter
      <3>2. NoRsx = [input |-> [key |-> << >>, counter |-> <<0, 0>>], buf |-> << >>]
        BY DEF NoRsx, Keyed
      <3> QED BY <3>1, <3>2 DEF Gone, NoRs, ProcType
    <2>2. [Gone EXCEPT !.pid = k] \in ProcType /\ [Gone EXCEPT !.pid = k].rs = NoRs
      BY <1>3, <2>1 DEF ProcType
    <2>3. \A p \in Processes : mem[p] \in ProcType /\ mem[p].rs = NoRs
      BY <1>1, <2>1, <2>2
    <2> QED BY <1>1, <2>3 DEF Memories, Allocated
  <1>5. Generators(mem) = {} /\ Live = {}
    BY <1>4 DEF Generators, Live
  <1>6. CallInv
    BY <1>2, <1>3, <1>4 DEF CallInv, Memories
  <1>7. OnceInv(mem, Live, used, drawn, entropy)
    <2>1. Spoken(mem, Live, used, drawn) = {} /\ Buffered(mem, Live) = {} /\ GivenOut(drawn) = {}
      BY <1>2, <1>5, NoneGiven DEF Spoken, Buffered
    <2>2. Filled(mem, entropy) /\ Unbroken(mem, Live) /\ Descent(mem, Live) /\ InStep(mem) /\ Unkeyed(mem, Live, drawn)
      BY <1>5 DEF Filled, Unbroken, Descent, InStep, Unkeyed
    <2>3. Ahead(mem, Live, used, drawn, entropy) /\ Unmixed(mem, Live, used, drawn) /\ Distinct(drawn)
      BY <1>2, <1>5, <2>1 DEF Ahead, Unmixed, Distinct
    <2> QED BY <2>2, <2>3 DEF OnceInv
  <1>8. PastInv(mem, AllGiven)
    <2>1. \A p \in Processes : AllGiven[p] = {}
      BY <1>2, NoneGiven DEF AllGiven
    <2> QED BY <2>1 DEF PastInv, Behind
  <1>9. CountInv
    BY <1>2, <1>5 DEF CountInv, ReseededInTime
  <1> QED BY <1>6, <1>7, <1>8, <1>9 DEF RandomInv

LEMMA BeginInv ==
  ASSUME RandomInv, NEW p \in Processes, Begin(p)
  PROVE  RandomInv'
  <1>1. /\ mem \in Memories /\ me \in Processes /\ left \in Nat /\ drawn \in Seq(Keystreams) /\ entropy \in Nat
        /\ used \in SUBSET Keystreams /\ past \in [Processes -> SUBSET Keystreams] /\ since \in [Processes -> Nat]
        /\ OnceInv(mem, Live, used, drawn, entropy) /\ Live \subseteq Generators(mem)
    BY RandomFacts
  <1>2. ASSUME NEW q \in Processes
        PROVE  /\ mem[q] \in ProcType /\ (Allocated(mem[q]) <=> q \in Generators(mem))
               /\ Allocated(mem[q]) => Sound(mem[q])
               /\ Behind(mem[q], past[q])
    BY RandomFacts DEF Begin
  <1>3. /\ rpc = "idle" /\ me' = p /\ drawn = << >> /\ rpc' \in {"count", "stir"}
        /\ UNCHANGED <<drawn, entropy, used, past, since, forks>>
    BY RandomFacts DEF Begin
  <1>4. /\ request' \in {"buf", "addrandom", "u32", "stir"} /\ left' \in Nat
        /\ rpc' = "count" /\ request' = "u32" => left' = ValSize
    <2>1. Lengths \subseteq Nat /\ DatLengths \subseteq Nat /\ ValSize \in Nat
      BY Arc4randomAssumption
    <2>2. \/ request' = "buf" /\ left' \in Lengths
          \/ request' = "addrandom" /\ left' \in DatLengths
          \/ request' = "u32" /\ left' = ValSize
          \/ request' = "stir" /\ left' = 0
      BY DEF Begin
    <2>3. CASE request' = "buf" /\ left' \in Lengths
      BY <2>1, <2>3
    <2>4. CASE request' = "addrandom" /\ left' \in DatLengths
      BY <2>1, <2>4
    <2>5. CASE request' = "u32" /\ left' = ValSize
      BY <2>1, <2>5
    <2>6. CASE request' = "stir" /\ left' = 0
      BY <2>6
    <2> QED BY <2>2, <2>3, <2>4, <2>5, <2>6
  <1>5. mem' = [mem EXCEPT ![p] = ForkDetect(mem[p])] \/ (mem' = mem /\ rpc' = "stir")
    BY DEF Begin
  <1>6. ASSUME NEW q \in Processes
        PROVE  /\ mem'[q] \in ProcType /\ mem'[q].rsx = mem[q].rsx
               /\ (Allocated(mem'[q]) <=> Allocated(mem[q])) /\ (Allocated(mem'[q]) => Sound(mem'[q]))
               /\ mem'[q] = mem[q] \/ (mem'[q].rs.count <= 0 /\ (Allocated(mem[q]) => mem'[q].rs.count = 0))
               /\ q = p /\ rpc' = "count" /\ IsFork(mem'[q]) => mem'[q].rs.count <= 0
    <2>1. CASE mem'[q] = mem[q] /\ ~ (q = p /\ rpc' = "count")
      BY <1>2, <2>1
    <2>2. CASE mem'[q] = ForkDetect(mem[q])
      BY <1>2, <2>2, ForkDetectIs
    <2>3. (mem'[q] = mem[q] /\ ~ (q = p /\ rpc' = "count")) \/ mem'[q] = ForkDetect(mem[q])
      BY <1>1, <1>5 DEF Memories
    <2> QED BY <2>1, <2>2, <2>3
  <1>7. mem' \in Memories
    <2>1. mem' = [q \in Processes |-> mem'[q]]
      BY <1>1, <1>5 DEF Memories
    <2> QED BY <1>6, <2>1 DEF Memories
  <1>8. CallInv'
    BY <1>1, <1>3, <1>4, <1>6, <1>7 DEF CallInv, Memories
  <1>9. \A q \in Live' : q \in Live /\ mem'[q] = mem[q]
    <2> SUFFICES ASSUME NEW q \in Live' PROVE q \in Live /\ mem'[q] = mem[q]
      OBVIOUS
    <2>1. q \in Processes /\ Allocated(mem'[q]) /\ ~ IsFork(mem'[q]) /\ mem'[q].rs.count > 0
      BY <1>3 DEF Live, Generators
    <2>2. mem'[q].rs.count \in Int
      BY <1>6, <2>1, ProcFields
    <2>3. mem'[q] = mem[q]
      BY <1>6, <2>1, <2>2
    <2> QED BY <2>1, <2>3 DEF Live, Generators
  <1>10. OnceInv(mem', Live', used', drawn', entropy')
    <2>1. Live' \subseteq Generators(mem')
      BY DEF Live
    <2>2. ASSUME NEW q \in Generators(mem')
          PROVE  Sound(mem'[q]) /\ \E o \in Generators(mem) :
                   mem'[q].rsx = mem[o].rsx /\ (q \in Live' => o = q /\ mem'[q].rs.have = mem[q].rs.have)
      <3>1. q \in Processes /\ Allocated(mem'[q])
        BY DEF Generators
      <3> QED BY <1>2, <1>6, <1>9, <3>1
    <2>3. OnceInv(mem', Live', used, drawn, entropy)
      BY <1>1, <1>9, <2>1, <2>2, FrameOnce
    <2> QED BY <1>3, <2>3
  <1>11. ASSUME NEW q \in Processes PROVE Behind(mem'[q], past'[q] \cup IF q = me' THEN GivenOut(drawn') ELSE {})
    <2>1. Behind(mem'[q], past[q])
      BY <1>2, <1>6, SameBehind
    <2> QED BY <1>3, <2>1, NoneGiven
  <1>12. CountInv'
    <2>1. ASSUME NEW q \in Generators(mem')
          PROVE  mem'[q].rs.count = 0 \/ since'[q] + mem'[q].rs.count + 0 < 2 * REKEY_BASE
      <3>1. q \in Processes /\ Allocated(mem'[q]) /\ q \in Generators(mem)
        BY <1>2, <1>6 DEF Generators
      <3>2. mem[q].rs.count = 0 \/ since[q] + mem[q].rs.count + 0 < 2 * REKEY_BASE
        BY <1>3, <3>1 DEF RandomInv, CountInv
      <3> QED BY <1>3, <1>6, <3>1, <3>2
    <2> QED BY <1>3, <2>1 DEF CountInv, ReseededInTime
  <1> QED BY <1>8, <1>10, <1>11, <1>12, InvAfter

LEMMA StirInv ==
  ASSUME RandomInv, Stir
  PROVE  RandomInv'
  <1> DEFINE s == mem[me]
  <1>1. /\ mem \in Memories /\ me \in Processes /\ left \in Nat /\ drawn \in Seq(Keystreams) /\ entropy \in Nat
        /\ used \in SUBSET Keystreams /\ past \in [Processes -> SUBSET Keystreams] /\ since \in [Processes -> Nat]
        /\ OnceInv(mem, Live, used, drawn, entropy)
        /\ s \in ProcType /\ (Allocated(s) => Sound(s))
    BY RandomFacts
  <1>2. \A q \in Processes : Behind(mem[q], past[q])
    BY RandomFacts DEF Stir
  <1>3. drawn = << >> /\ UNCHANGED <<me, request, left, drawn, past, calls, forks>>
        /\ entropy' = entropy + 1 /\ since' = [since EXCEPT ![me] = 0]
        /\ used' = used \cup FuzzBytes(s) \cup (IF Allocated(s) THEN KeyBytes(s) ELSE {})
        /\ ((rpc = "count" /\ rpc' = "take") \/ (rpc = "stir" /\ rpc' = "return"))
    BY RandomFacts DEF Stir
  <1>4. PICK fuzz \in Fuzz : mem' = [mem EXCEPT ![me] =
                               [Stirred(s, fuzz) EXCEPT !.rs.count = Remaining(REKEY_BASE + fuzz)]]
    BY DEF Stir
  <1> DEFINE r == Remaining(REKEY_BASE + fuzz)
             t == [Stirred(s, fuzz) EXCEPT !.rs.count = r]
  <1>5. r \in Nat /\ (r = 0 \/ r + left < 2 * REKEY_BASE) /\ r <= REKEY_BASE + fuzz /\ REKEY_BASE + fuzz < 2 * REKEY_BASE
        /\ REKEY_BASE \in Nat /\ fuzz \in Nat
    BY <1>1, SizesAre DEF Fuzz, Remaining
  <1> HIDE DEF r, s
  <1>6. StirredFrom(s, t, entropy) /\ t.rs.count = r
    BY <1>1, <1>5, StirredIs
  <1>7. mem' = [mem EXCEPT ![me] = t]
    BY <1>4 DEF r
  <1> HIDE DEF t
  <1>8. t \in ProcType /\ Allocated(t)
    BY <1>6 DEF StirredFrom
  <1>9. mem' \in Memories /\ mem'[me] = t /\ \A q \in Processes \ {me} : mem'[q] = mem[q]
    BY <1>1, <1>7, <1>8 DEF Memories
  <1>10. used' \in SUBSET Keystreams
    <2>1. FuzzBytes(s) \subseteq Keystreams
      BY <1>6 DEF StirredFrom
    <2>2. Allocated(s) => KeyBytes(s) \subseteq Keystreams
      BY <1>1, MadeBytes
    <2> QED BY <1>1, <1>3, <2>1, <2>2
  <1>11. CallInv'
    <2>1. /\ rpc = "count" /\ request = "u32" => left = ValSize
          /\ request \in {"none", "buf", "addrandom", "u32", "stir"}
      BY DEF RandomInv, CallInv
    <2>2. since' \in [Processes -> Nat] /\ entropy' \in Nat
      BY <1>1, <1>3
    <2> QED BY <1>1, <1>3, <1>8, <1>9, <1>10, <2>1, <2>2 DEF CallInv, Memories
  <1>12. OnceInv(mem', Live', used', drawn', entropy')
    <2>1. OnceInv(mem', Live \cup {me}, used', << >>, entropy + 1)
      BY <1>1, <1>3, <1>6, <1>7, StirOnce DEF s
    <2>2. Live' \subseteq Live \cup {me}
      BY <1>1, <1>3, <1>9, LiveAfter
    <2>3. entropy + 1 \in Nat
      BY <1>1
    <2> QED BY <1>3, <1>9, <1>10, <2>1, <2>2, <2>3, NoneGiven, ShrinkOnce
  <1>13. ASSUME NEW q \in Processes PROVE Behind(mem'[q], past'[q] \cup IF q = me' THEN GivenOut(drawn') ELSE {})
    <2>1. Behind(mem'[q], past[q])
      <3>1. CASE q = me
        <4>1. Behind(s, past[q]) /\ past[q] \in SUBSET Keystreams
          BY <1>1, <1>2, <3>1 DEF s
        <4> QED BY <1>1, <1>6, <1>9, <3>1, <4>1, StirBehind
      <3>2. CASE q # me
        BY <1>2, <1>9, <3>2
      <3> QED BY <3>1, <3>2
    <2> QED BY <1>3, <2>1, NoneGiven
  <1>14. CountInv'
    <2>1. since'[me] = 0 /\ \A q \in Processes \ {me} : since'[q] = since[q]
      BY <1>1, <1>3
    <2>2. ASSUME NEW q \in Generators(mem')
          PROVE  \/ mem'[q].rs.count = 0
                 \/ since'[q] + mem'[q].rs.count + (IF q = me' /\ rpc' = "take" THEN Len(drawn') + left' ELSE 0) < 2 * REKEY_BASE
      <3>1. q \in Processes /\ Allocated(mem'[q])
        BY DEF Generators
      <3>2. CASE q = me
        <4>1. 0 + r + 0 < 2 * REKEY_BASE /\ (r = 0 \/ 0 + r + (0 + left) < 2 * REKEY_BASE)
          BY <1>1, <1>5
        <4> QED BY <1>3, <1>6, <1>9, <2>1, <3>2, <4>1
      <3>3. CASE q # me
        <4>1. q \in Generators(mem) /\ mem'[q] = mem[q]
          BY <1>9, <3>1, <3>3 DEF Generators
        <4>2. mem[q].rs.count = 0 \/ since[q] + mem[q].rs.count + 0 < 2 * REKEY_BASE
          BY <3>3, <4>1 DEF RandomInv, CountInv
        <4> QED BY <1>3, <2>1, <3>1, <3>3, <4>1, <4>2
      <3> QED BY <3>2, <3>3
    <2>3. ReseededInTime'
      BY <1>3, <2>1 DEF ReseededInTime
    <2> QED BY <2>2, <2>3 DEF CountInv
  <1> QED BY <1>11, <1>12, <1>13, <1>14, InvAfter

LEMMA CountDownInv ==
  ASSUME RandomInv, CountDown
  PROVE  RandomInv'
  <1> DEFINE s == mem[me]
             r == Remaining(s.rs.count)
             t == [s EXCEPT !.rs.count = r]
  <1>1. /\ mem \in Memories /\ me \in Processes /\ left \in Nat /\ drawn \in Seq(Keystreams) /\ entropy \in Nat
        /\ used \in SUBSET Keystreams /\ past \in [Processes -> SUBSET Keystreams] /\ since \in [Processes -> Nat]
        /\ OnceInv(mem, Live, used, drawn, entropy)
        /\ s \in ProcType /\ (Allocated(s) => Sound(s))
    BY RandomFacts
  <1>2. \A q \in Processes : Behind(mem[q], past[q])
    BY RandomFacts DEF CountDown
  <1>3. drawn = << >> /\ UNCHANGED <<me, request, left, drawn, entropy, used, past, since, calls, forks>>
        /\ rpc = "count" /\ rpc' = "take" /\ Allocated(s) /\ s.rs.count > left
    BY RandomFacts DEF CountDown
  <1>4. mem' = [mem EXCEPT ![me] = t]
    BY DEF CountDown
  <1>5. s.rs \in [have : Int, count : Int] /\ s.rs.count \in Int /\ r = s.rs.count - left /\ r \in Nat
    BY <1>1, <1>3, ProcFields, SMTT(30) DEF Remaining
  <1>6. /\ t \in ProcType /\ t.rsx = s.rsx /\ t.rs.count = r /\ t.rs.have = s.rs.have
        /\ t.rs \in [have : Int, count : Int]
    <2> DEFINE x == [s.rs EXCEPT !.count = r]
    <2>1. x \in [have : Int, count : Int] /\ x.count = r /\ x.have = s.rs.have
      BY <1>5
    <2>2. t = [s EXCEPT !.rs = x]
      OBVIOUS
    <2> HIDE DEF x, t
    <2> QED BY <1>1, <2>1, <2>2 DEF ProcType
  <1> HIDE DEF r, s, t
  <1>7. mem' \in Memories /\ mem'[me] = t /\ \A q \in Processes \ {me} : mem'[q] = mem[q]
    BY <1>1, <1>4, <1>6 DEF Memories
  <1>8. Allocated(t) /\ Sound(t)
    <2>1. t.rs.have # -1
      BY <1>1, <1>3, <1>6 DEF Sound
    <2>2. Allocated(t)
      BY <2>1 DEF Allocated, NoRs
    <2>3. Key(t) = Key(s) /\ Counter(t) = Counter(s) /\ Buf(t) = Buf(s)
      BY <1>6 DEF Key, Counter, Buf
    <2>4. Sound(t)
      BY <1>1, <1>3, <1>5, <1>6, <2>3 DEF Sound
    <2> QED BY <2>2, <2>4
  <1>9. me \in Live
    <2>1. IsFork(s) => s.rs.count <= 0
      BY <1>3 DEF RandomInv, CallInv, s
    <2>2. ~ IsFork(s) /\ s.rs.count > 0
      BY <1>1, <1>3, <1>5, <2>1
    <2> QED BY <1>1, <1>3, <2>2 DEF Live, Generators, s
  <1>10. Live' \subseteq Live
    BY <1>1, <1>3, <1>7, <1>9, LiveAfter
  <1>11. CallInv'
    <2>1. /\ request = "u32" => left = ValSize
          /\ request \in {"none", "buf", "addrandom", "u32", "stir"}
      BY <1>3 DEF RandomInv, CallInv
    <2> QED BY <1>1, <1>3, <1>7, <1>8, <2>1 DEF CallInv, Memories
  <1>12. OnceInv(mem', Live', used', drawn', entropy')
    <2>1. Live' \subseteq Generators(mem')
      BY DEF Live
    <2>2. ASSUME NEW q \in Generators(mem')
          PROVE  Sound(mem'[q]) /\ \E o \in Generators(mem) :
                   mem'[q].rsx = mem[o].rsx /\ (q \in Live' => o = q /\ mem'[q].rs.have = mem[q].rs.have)
      <3>1. q \in Processes /\ Allocated(mem'[q])
        BY DEF Generators
      <3>2. CASE q = me
        <4>1. q \in Generators(mem)
          BY <1>1, <1>3, <3>2 DEF Generators, s
        <4> QED BY <1>6, <1>7, <1>8, <3>2, <4>1 DEF s
      <3>3. CASE q # me
        <4>1. mem'[q] = mem[q] /\ q \in Generators(mem)
          BY <1>7, <3>1, <3>3 DEF Generators
        <4> QED BY <3>1, <4>1, RandomFacts
      <3> QED BY <3>2, <3>3
    <2>3. OnceInv(mem', Live', used, drawn, entropy)
      BY <1>1, <1>10, <2>1, <2>2, FrameOnce
    <2> QED BY <1>3, <2>3
  <1>13. ASSUME NEW q \in Processes PROVE Behind(mem'[q], past'[q] \cup IF q = me' THEN GivenOut(drawn') ELSE {})
    <2>1. Behind(mem'[q], past[q])
      <3>1. CASE q = me
        <4>1. Behind(s, past[q])
          BY <1>2, <3>1 DEF s
        <4> QED BY <1>6, <1>7, <1>8, <3>1, <4>1, SameBehind
      <3>2. CASE q # me
        BY <1>2, <1>7, <3>2
      <3> QED BY <3>1, <3>2
    <2> QED BY <1>3, <2>1, NoneGiven
  <1>14. CountInv'
    <2>1. \A q \in Generators(mem) : mem[q].rs.count = 0 \/ since[q] + mem[q].rs.count + 0 < 2 * REKEY_BASE
      BY <1>3 DEF RandomInv, CountInv
    <2>2. since[me] + r + (0 + left) < 2 * REKEY_BASE /\ since[me] + 0 + left < 2 * REKEY_BASE
      <3>1. s.rs.count = 0 \/ since[me] + s.rs.count + 0 < 2 * REKEY_BASE
        BY <1>1, <1>3, <2>1 DEF Generators, s
      <3>2. since[me] \in Nat /\ REKEY_BASE \in Nat
        BY <1>1, SizesAre
      <3> QED BY <1>1, <1>3, <1>5, <3>1, <3>2
    <2>3. ASSUME NEW q \in Generators(mem')
          PROVE  \/ mem'[q].rs.count = 0
                 \/ since'[q] + mem'[q].rs.count + (IF q = me' /\ rpc' = "take" THEN Len(drawn') + left' ELSE 0) < 2 * REKEY_BASE
      <3>1. q \in Processes /\ Allocated(mem'[q])
        BY DEF Generators
      <3>2. CASE q = me
        BY <1>3, <1>6, <1>7, <2>2, <3>2, NoneGiven
      <3>3. CASE q # me
        <4>1. q \in Generators(mem) /\ mem'[q] = mem[q]
          BY <1>7, <3>1, <3>3 DEF Generators
        <4> QED BY <1>3, <2>1, <3>3, <4>1
      <3> QED BY <3>2, <3>3
    <2>4. ReseededInTime'
      BY <1>3, <2>2, NoneGiven DEF ReseededInTime
    <2> QED BY <2>3, <2>4 DEF CountInv
  <1> QED BY <1>11, <1>12, <1>13, <1>14, InvAfter

LEMMA SumIs ==
  ASSUME NEW a \in Nat, NEW b \in Nat, NEW x \in Nat, NEW y \in Nat, NEW c \in Nat, b + y = a + x
  PROVE  c + b + y = c + a + x
  OBVIOUS

(* What stays when a call past both tests changes its own variables and    *)
(* takes as many bytes as it owes less.                                    *)
LEMMA TakeInv ==
  ASSUME RandomInv, rpc = "take", NEW t \in ProcType, mem' = [mem EXCEPT ![me] = t], Allocated(t), Sound(t),
         t.rs.count = mem[me].rs.count, UNCHANGED <<me, request, rpc, entropy, past, since>>,
         left' \in Nat, drawn' \in Seq(Keystreams), used' \in SUBSET Keystreams,
         Len(drawn') + left' = Len(drawn) + left,
         request = "u32" => (left' = ValSize /\ drawn' = << >>) \/ left' = 0,
         request # "addrandom",
         OnceInv(mem', Live, used', drawn', entropy), Behind(t, past[me] \cup GivenOut(drawn'))
  PROVE  RandomInv'
  <1>1. /\ mem \in Memories /\ me \in Processes /\ left \in Nat /\ drawn \in Seq(Keystreams) /\ entropy \in Nat
        /\ past \in [Processes -> SUBSET Keystreams] /\ since \in [Processes -> Nat]
    BY RandomFacts
  <1>2. mem' \in Memories /\ mem'[me] = t /\ \A q \in Processes \ {me} : mem'[q] = mem[q]
    BY <1>1 DEF Memories
  <1>3. Allocated(mem[me]) /\ request \in {"none", "buf", "addrandom", "u32", "stir"} /\ CountInv
    BY DEF RandomInv, CallInv
  <1>4. me \in Live
    BY <1>1, <1>3 DEF Live, Generators
  <1>5. Live' \subseteq Live
    BY <1>1, <1>2, <1>4, LiveAfter
  <1>6. CallInv'
    BY <1>1, <1>2, <1>3 DEF CallInv, Memories
  <1>7. OnceInv(mem', Live', used', drawn', entropy')
    BY <1>1, <1>2, <1>5, ShrinkOnce
  <1>8. ASSUME NEW q \in Processes PROVE Behind(mem'[q], past'[q] \cup IF q = me' THEN GivenOut(drawn') ELSE {})
    <2>1. CASE q = me
      BY <1>2, <2>1
    <2>2. CASE q # me
      <3>1. Behind(mem[q], AllGiven[q]) /\ AllGiven[q] = past[q] \cup {}
        BY <2>2, RandomFacts
      <3> QED BY <1>2, <2>2, <3>1
    <2> QED BY <2>1, <2>2
  <1>9. CountInv'
    <2>1. ASSUME NEW q \in Generators(mem')
          PROVE  \/ mem'[q].rs.count = 0
                 \/ since'[q] + mem'[q].rs.count + (IF q = me' /\ rpc' = "take" THEN Len(drawn') + left' ELSE 0) < 2 * REKEY_BASE
      <3>1. q \in Processes /\ Allocated(mem'[q])
        BY DEF Generators
      <3>2. q \in Generators(mem) /\ mem'[q].rs.count = mem[q].rs.count
        BY <1>2, <1>3, <3>1 DEF Generators
      <3>3. \/ mem[q].rs.count = 0
            \/ since[q] + mem[q].rs.count + (IF q = me /\ rpc = "take" THEN Len(drawn) + left ELSE 0) < 2 * REKEY_BASE
        BY <1>3, <3>2 DEF CountInv
      <3> QED BY <3>2, <3>3
    <2>2. ReseededInTime'
      <3>1. since[me] = 0 \/ since[me] + Len(drawn) + left < 2 * REKEY_BASE
        BY <1>3 DEF CountInv, ReseededInTime
      <3>2. Len(drawn) \in Nat /\ Len(drawn') \in Nat /\ since[me] \in Nat /\ REKEY_BASE \in Nat
        BY <1>1, SizesAre, SMTT(30)
      <3>3. since[me] + Len(drawn') + left' = since[me] + Len(drawn) + left
        <4>1. left \in Nat /\ left' \in Nat /\ Len(drawn') + left' = Len(drawn) + left
          BY <1>1, Zenon
        <4> DEFINE a == Len(drawn)
                   b == Len(drawn')
                   c == since[me]
                   y == left'
        <4>2. a \in Nat /\ b \in Nat /\ c \in Nat /\ y \in Nat /\ b + y = a + left
          BY <3>2, <4>1, Zenon
        <4> HIDE DEF a, b, c, y
        <4>3. c + b + y = c + a + left
          BY <4>1, <4>2, SumIs
        <4> QED BY <4>3 DEF a, b, c, y
      <3> QED BY <3>1, <3>3 DEF ReseededInTime
    <2> QED BY <2>1, <2>2 DEF CountInv
  <1> QED BY <1>6, <1>7, <1>8, <1>9, InvAfter

LEMMA InTake ==
  ASSUME RandomInv, rpc = "take"
  PROVE  LET s == mem[me] IN
         /\ me \in Live /\ s \in ProcType /\ Allocated(s) /\ Sound(s) /\ Whole(s)
         /\ s.rs.have \in Nat /\ AllGiven[me] = past[me] \cup GivenOut(drawn)
         /\ Behind(s, AllGiven[me]) /\ AllGiven[me] \in SUBSET Keystreams
         /\ request = "u32" => (left = ValSize /\ drawn = << >>) \/ left = 0
         /\ request = "addrandom" => drawn = << >>
  <1> DEFINE s == mem[me]
  <1>1. Allocated(s) /\ me \in Processes
    BY RandomFacts DEF RandomInv, CallInv
  <1>2. me \in Live
    BY <1>1 DEF Live, Generators
  <1>3. /\ s \in ProcType /\ Sound(s) /\ Whole(s) /\ AllGiven[me] = past[me] \cup GivenOut(drawn)
        /\ Behind(s, AllGiven[me]) /\ AllGiven[me] \in SUBSET Keystreams
    BY <1>1, <1>2, RandomFacts
  <1>4. s.rs.have \in Nat
    BY <1>3, SizesAre DEF Sound
  <1>5. /\ request = "u32" => (left = ValSize /\ drawn = << >>) \/ left = 0
        /\ request = "addrandom" => drawn = << >>
    BY DEF RandomInv, CallInv
  <1> QED BY <1>1, <1>2, <1>3, <1>4, <1>5

(* Bytes out of the buffer, and what is behind and ahead of them then.     *)
LEMMA TakeStep ==
  ASSUME RandomInv, rpc = "take", NEW n \in 0..mem[me].rs.have
  PROVE  LET t == Taken(mem[me], n)
             d == drawn \o Keystream(mem[me], n)
         IN /\ t \in ProcType /\ Allocated(t) /\ Sound(t) /\ t.rs.count = mem[me].rs.count
            /\ t.rs.have = mem[me].rs.have - n
            /\ d \in Seq(Keystreams) /\ Len(d) = Len(drawn) + n /\ Keystream(mem[me], n) \in Seq(Keystreams)
            /\ Len(Keystream(mem[me], n)) = n
            /\ [mem EXCEPT ![me] = t] \in Memories /\ past[me] \cup GivenOut(d) \in SUBSET Keystreams
            /\ OnceInv([mem EXCEPT ![me] = t], Live, used, d, entropy) /\ Behind(t, past[me] \cup GivenOut(d))
  <1> DEFINE s == mem[me]
             t == Taken(s, n)
             x == Keystream(s, n)
             d == drawn \o x
  <1>1. /\ mem \in Memories /\ me \in Processes /\ drawn \in Seq(Keystreams) /\ entropy \in Nat
        /\ used \in SUBSET Keystreams /\ past \in [Processes -> SUBSET Keystreams]
        /\ OnceInv(mem, Live, used, drawn, entropy)
    BY RandomFacts
  <1>2. /\ me \in Live /\ s \in ProcType /\ Allocated(s) /\ Sound(s) /\ Whole(s)
        /\ s.rs.have \in Nat /\ AllGiven[me] = past[me] \cup GivenOut(drawn)
        /\ Behind(s, AllGiven[me]) /\ AllGiven[me] \in SUBSET Keystreams
    BY InTake
  <1>3. /\ TakenFrom(s, t, GivenOut(x)) /\ t.rs.have = s.rs.have - n /\ x \in Seq(Keystreams) /\ Len(x) = n
    BY <1>2, TakenIs
  <1>4. OnceInv([mem EXCEPT ![me] = t], Live, used, d, entropy)
    BY <1>1, <1>2, TakeOnce
  <1> HIDE DEF s, t, x
  <1>5. d \in Seq(Keystreams) /\ Len(d) = Len(drawn) + n /\ GivenOut(d) = GivenOut(drawn) \cup GivenOut(x)
    BY <1>1, <1>3, GivenConcat
  <1> HIDE DEF d
  <1>6. t \in ProcType /\ Allocated(t) /\ Sound(t) /\ t.rs.count = s.rs.count
    BY <1>3 DEF TakenFrom
  <1>7. [mem EXCEPT ![me] = t] \in Memories
    BY <1>1, <1>6 DEF Memories
  <1>8. Behind(t, AllGiven[me] \cup GivenOut(x))
    BY <1>2, <1>3, TakeBehind
  <1>9. AllGiven[me] \cup GivenOut(x) = past[me] \cup GivenOut(d)
    BY <1>2, <1>5
  <1>10. GivenOut(x) \subseteq Keystreams
    BY <1>3 DEF GivenOut
  <1>11. past[me] \cup GivenOut(d) \in SUBSET Keystreams
    BY <1>2, <1>9, <1>10
  <1>12. Behind(t, past[me] \cup GivenOut(d))
    BY <1>8, <1>9
  <1> QED BY <1>3, <1>4, <1>5, <1>6, <1>7, <1>11, <1>12 DEF s, t, x, d

LEMMA SetTwice ==
  ASSUME NEW m \in Memories, NEW c \in Processes, NEW a, NEW b
  PROVE  [[m EXCEPT ![c] = a] EXCEPT ![c] = b] = [m EXCEPT ![c] = b] /\ [m EXCEPT ![c] = a][c] = a
  BY DEF Memories

LEMMA TakeSomeInv ==
  ASSUME RandomInv, TakeSome
  PROVE  RandomInv'
  <1> DEFINE s == mem[me]
             i == IF left < s.rs.have THEN left ELSE s.rs.have
             t == Taken(s, i)
             d == drawn \o Keystream(s, i)
             u == Rekeyed(t, <<"nothing">>)
             n == [mem EXCEPT ![me] = t]
  <1>1. rpc = "take" /\ request = "buf" /\ UNCHANGED <<me, request, rpc, entropy, past, since>>
    BY DEF TakeSome
  <1>2. drawn' = d /\ left' = left - i
        /\ \/ s.rs.have = i /\ mem' = [mem EXCEPT ![me] = u] /\ used' = used \cup KeyBytes(t)
           \/ mem' = [mem EXCEPT ![me] = t] /\ used' = used
    BY DEF TakeSome, Rekey
  <1>3. /\ mem \in Memories /\ me \in Processes /\ left \in Nat /\ drawn \in Seq(Keystreams) /\ entropy \in Nat
        /\ used \in SUBSET Keystreams
    BY RandomFacts
  <1>4. me \in Live /\ s.rs.have \in Nat
    BY <1>1, InTake
  <1>5. i \in 0..s.rs.have /\ left - i \in Nat
    BY <1>3, <1>4
  <1> HIDE DEF i
  <1>6. /\ t \in ProcType /\ Allocated(t) /\ Sound(t) /\ t.rs.count = s.rs.count
        /\ d \in Seq(Keystreams) /\ Len(d) = Len(drawn) + i
        /\ n \in Memories /\ past[me] \cup GivenOut(d) \in SUBSET Keystreams
        /\ OnceInv(n, Live, used, d, entropy) /\ Behind(t, past[me] \cup GivenOut(d))
    BY <1>1, <1>5, TakeStep
  <1> HIDE DEF s, t, d
  <1>7. Len(drawn') + left' = Len(drawn) + left
    <2> DEFINE a == Len(drawn)
    <2>1. a \in Nat /\ Len(drawn') = a + i
      BY <1>2, <1>3, <1>6
    <2> HIDE DEF a
    <2> QED BY <1>2, <1>3, <1>5, <2>1 DEF a
  <1>8. CASE mem' = [mem EXCEPT ![me] = t] /\ used' = used
    BY <1>1, <1>2, <1>3, <1>5, <1>6, <1>7, <1>8, TakeInv DEF s
  <1>9. CASE mem' = [mem EXCEPT ![me] = u] /\ used' = used \cup KeyBytes(t)
    <2> DEFINE dat == <<"nothing">>
    <2>1. dat \in Plain
      BY DEF Plain
    <2>2. dat \in Dats
      BY <2>1, PlainIs
    <2> HIDE DEF dat
    <2>3. RekeyedFrom(t, u, dat)
      BY <1>6, <2>2, RekeyedIs DEF dat
    <2>4. u \in ProcType /\ Allocated(u) /\ Sound(u) /\ u.rs.count = s.rs.count
      BY <1>6, <2>3 DEF RekeyedFrom
    <2>5. Behind(u, past[me] \cup GivenOut(d))
      BY <1>6, <2>2, <2>3, RekeyBehind
    <2>6. n[me] = t /\ [n EXCEPT ![me] = u] = [mem EXCEPT ![me] = u]
      BY <1>3, SetTwice, ZenonT(40)
    <2>7. KeyBytes(t) \subseteq Keystreams
      BY <1>6, MadeBytes
    <2>8. OnceInv([n EXCEPT ![me] = Rekeyed(n[me], dat)], Live, used \cup KeyBytes(n[me]), d, entropy)
      <3> HIDE DEF n
      <3> QED BY <1>3, <1>4, <1>6, <2>1, RekeyOnce
    <2>9. OnceInv(mem', Live, used', d, entropy)
      BY <1>9, <2>6, <2>8 DEF dat
    <2> HIDE DEF u, n
    <2> QED BY <1>1, <1>2, <1>3, <1>5, <1>6, <1>7, <1>9, <2>4, <2>5, <2>7, <2>9, TakeInv DEF s
  <1> QED BY <1>2, <1>8, <1>9

LEMMA TakeRekeyInv ==
  ASSUME RandomInv, TakeRekey
  PROVE  RandomInv'
  <1> DEFINE s == mem[me]
             dat == <<"nothing">>
             u == Rekeyed(s, dat)
  <1>1. /\ rpc = "take" /\ request = "u32" /\ left > 0
        /\ UNCHANGED <<me, request, left, drawn, rpc, entropy, past, since>>
        /\ mem' = [mem EXCEPT ![me] = u] /\ used' = used \cup KeyBytes(s)
    BY DEF TakeRekey, Rekey
  <1>2. /\ mem \in Memories /\ me \in Processes /\ left \in Nat /\ drawn \in Seq(Keystreams) /\ entropy \in Nat
        /\ used \in SUBSET Keystreams /\ OnceInv(mem, Live, used, drawn, entropy)
    BY RandomFacts
  <1>3. /\ me \in Live /\ s \in ProcType /\ Allocated(s) /\ Sound(s) /\ AllGiven[me] = past[me] \cup GivenOut(drawn)
        /\ Behind(s, AllGiven[me]) /\ AllGiven[me] \in SUBSET Keystreams
        /\ (left = ValSize /\ drawn = << >>) \/ left = 0
    BY <1>1, InTake
  <1>4. dat \in Plain
    BY DEF Plain
  <1>5. dat \in Dats
    BY <1>4, PlainIs
  <1> HIDE DEF dat
  <1>6. RekeyedFrom(s, u, dat)
    BY <1>3, <1>5, RekeyedIs
  <1>7. u \in ProcType /\ Allocated(u) /\ Sound(u) /\ u.rs.count = s.rs.count
    BY <1>6 DEF RekeyedFrom
  <1>8. Behind(u, past[me] \cup GivenOut(drawn))
    BY <1>3, <1>5, <1>6, RekeyBehind
  <1>9. KeyBytes(s) \subseteq Keystreams
    BY <1>3, MadeBytes
  <1>10. OnceInv(mem', Live, used', drawn, entropy)
    BY <1>1, <1>2, <1>3, <1>4, RekeyOnce
  <1> HIDE DEF u
  <1> QED BY <1>1, <1>2, <1>3, <1>7, <1>8, <1>9, <1>10, TakeInv

LEMMA TakeValInv ==
  ASSUME RandomInv, TakeVal
  PROVE  RandomInv'
  <1> DEFINE s == mem[me]
             t == Taken(s, ValSize)
             x == Keystream(s, ValSize)
  <1>1. /\ rpc = "take" /\ request = "u32" /\ left > 0 /\ s.rs.have >= ValSize
        /\ UNCHANGED <<me, request, rpc, entropy, used, past, since>>
        /\ mem' = [mem EXCEPT ![me] = t] /\ drawn' = x /\ left' = 0
    BY DEF TakeVal
  <1>2. /\ left \in Nat /\ drawn \in Seq(Keystreams) /\ used \in SUBSET Keystreams
    BY RandomFacts
  <1>3. s.rs.have \in Nat /\ ((left = ValSize /\ drawn = << >>) \/ left = 0)
    BY <1>1, InTake
  <1>4. ValSize \in 0..s.rs.have /\ drawn = << >> /\ left = ValSize /\ ValSize \in Nat
    BY <1>1, <1>3, SizesAre
  <1>5. /\ t \in ProcType /\ Allocated(t) /\ Sound(t) /\ t.rs.count = s.rs.count
        /\ x \in Seq(Keystreams) /\ Len(x) = ValSize
        /\ OnceInv([mem EXCEPT ![me] = t], Live, used, drawn \o x, entropy) /\ Behind(t, past[me] \cup GivenOut(drawn \o x))
    BY <1>1, <1>4, TakeStep
  <1> HIDE DEF x, t, s
  <1>6. drawn \o x = x
    BY <1>4, <1>5
  <1>7. OnceInv(mem', Live, used, x, entropy) /\ Behind(t, past[me] \cup GivenOut(x))
    BY <1>1, <1>5, <1>6
  <1>8. Len(drawn') + left' = Len(drawn) + left
    BY <1>1, <1>4, <1>5, NoneGiven
  <1> QED BY <1>1, <1>2, <1>5, <1>7, <1>8, TakeInv DEF s

LEMMA AddRandomInv ==
  ASSUME RandomInv, AddRandom
  PROVE  RandomInv'
  <1> DEFINE s == mem[me]
             dat == IF left = 0 THEN <<"nothing">> ELSE <<"dat", left>>
             u == Rekeyed(s, dat)
  <1>1. /\ rpc = "take" /\ request = "addrandom" /\ rpc' = "return"
        /\ UNCHANGED <<me, request, drawn, entropy, past>> /\ left' = 0
        /\ since' = [since EXCEPT ![me] = since[me] + left]
        /\ mem' = [mem EXCEPT ![me] = u] /\ used' = used \cup KeyBytes(s)
    BY DEF AddRandom
  <1>2. /\ mem \in Memories /\ me \in Processes /\ left \in Nat /\ drawn \in Seq(Keystreams) /\ entropy \in Nat
        /\ used \in SUBSET Keystreams /\ OnceInv(mem, Live, used, drawn, entropy)
        /\ past \in [Processes -> SUBSET Keystreams] /\ since \in [Processes -> Nat]
    BY RandomFacts
  <1>3. /\ me \in Live /\ s \in ProcType /\ Allocated(s) /\ Sound(s) /\ AllGiven[me] = past[me] \cup GivenOut(drawn)
        /\ Behind(s, AllGiven[me]) /\ AllGiven[me] \in SUBSET Keystreams /\ drawn = << >>
    BY <1>1, InTake
  <1>4. dat \in Plain
    BY <1>2 DEF Plain
  <1>5. dat \in Dats
    BY <1>4, PlainIs
  <1> HIDE DEF dat
  <1>6. RekeyedFrom(s, u, dat)
    BY <1>3, <1>5, RekeyedIs
  <1>7. u \in ProcType /\ Allocated(u) /\ Sound(u) /\ u.rs.count = s.rs.count
    BY <1>6 DEF RekeyedFrom
  <1>8. Behind(u, past[me])
    <2>1. AllGiven[me] = past[me]
      BY <1>3, NoneGiven
    <2> QED BY <1>3, <1>5, <1>6, <2>1, RekeyBehind
  <1>9. KeyBytes(s) \subseteq Keystreams
    BY <1>3, MadeBytes
  <1>10. OnceInv(mem', Live, used', drawn, entropy)
    BY <1>1, <1>2, <1>3, <1>4, RekeyOnce
  <1> HIDE DEF u, s
  <1>11. mem' \in Memories /\ mem'[me] = u /\ \A q \in Processes \ {me} : mem'[q] = mem[q]
    BY <1>1, <1>2, <1>7 DEF Memories
  <1>12. Live' \subseteq Live
    BY <1>1, <1>2, <1>3, <1>11, LiveAfter
  <1>13. OnceInv(mem', Live', used', drawn', entropy')
    BY <1>1, <1>2, <1>9, <1>10, <1>11, <1>12, ShrinkOnce
  <1>14. since' \in [Processes -> Nat] /\ since'[me] = since[me] + left /\ \A q \in Processes \ {me} : since'[q] = since[q]
    <2>1. since[me] + left \in Nat
      BY <1>2
    <2> QED BY <1>1, <1>2, <2>1
  <1>15. CallInv'
    <2>1. request \in {"none", "buf", "addrandom", "u32", "stir"}
      BY <1>1
    <2> QED BY <1>1, <1>2, <1>3, <1>9, <1>11, <1>14, <2>1 DEF CallInv, Memories
  <1>16. ASSUME NEW q \in Processes PROVE Behind(mem'[q], past'[q] \cup IF q = me' THEN GivenOut(drawn') ELSE {})
    <2>1. CASE q = me
      BY <1>1, <1>3, <1>8, <1>11, <2>1, NoneGiven
    <2>2. CASE q # me
      <3>1. Behind(mem[q], AllGiven[q]) /\ AllGiven[q] = past[q] \cup {}
        BY <2>2, RandomFacts
      <3> QED BY <1>1, <1>11, <2>2, <3>1
    <2> QED BY <2>1, <2>2
  <1>17. CountInv'
    <2>1. \A q \in Generators(mem) :
            \/ mem[q].rs.count = 0
            \/ since[q] + mem[q].rs.count + (IF q = me /\ rpc = "take" THEN Len(drawn) + left ELSE 0) < 2 * REKEY_BASE
      BY DEF RandomInv, CountInv
    <2>2. ASSUME NEW q \in Generators(mem')
          PROVE  \/ mem'[q].rs.count = 0
                 \/ since'[q] + mem'[q].rs.count + 0 < 2 * REKEY_BASE
      <3>1. q \in Processes /\ Allocated(mem'[q])
        BY DEF Generators
      <3>2. CASE q = me
        <4> DEFINE a == since[me]
                   b == s.rs.count
        <4>1. b = 0 \/ a + b + (0 + left) < 2 * REKEY_BASE
          <5>1. me \in Generators(mem) /\ Len(drawn) = 0
            BY <1>2, <1>3, NoneGiven DEF Generators, s
          <5> QED BY <1>1, <2>1, <5>1 DEF s
        <4>2. a \in Nat /\ b \in Int /\ REKEY_BASE \in Nat
          BY <1>2, <1>3, ProcFields, SizesAre
        <4>3. mem'[q].rs.count = b /\ since'[q] = a + left
          BY <1>7, <1>11, <1>14, <3>2
        <4> HIDE DEF a, b
        <4>4. b = 0 \/ (a + left) + b + 0 < 2 * REKEY_BASE
          BY <1>2, <4>1, <4>2
        <4> QED BY <4>3, <4>4
      <3>3. CASE q # me
        <4>1. q \in Generators(mem) /\ mem'[q] = mem[q]
          BY <1>11, <3>1, <3>3 DEF Generators
        <4> QED BY <1>14, <2>1, <3>1, <3>3, <4>1
      <3> QED BY <3>2, <3>3
    <2> QED BY <1>1, <2>2 DEF CountInv, ReseededInTime
  <1> QED BY <1>13, <1>15, <1>16, <1>17, InvAfter

LEMMA NobodyIs == Nobody \in Processes
  BY Arc4randomAssumption DEF Nobody

LEMMA HandOutInv ==
  ASSUME RandomInv, HandOut
  PROVE  RandomInv'
  <1>1. /\ rpc = "return" \/ (rpc = "take" /\ request # "addrandom" /\ left = 0)
        /\ used' = used \cup GivenOut(drawn) /\ past' = [past EXCEPT ![me] = past[me] \cup GivenOut(drawn)]
        /\ since' = [since EXCEPT ![me] = since[me] + Len(drawn)]
        /\ rpc' = "idle" /\ me' = Nobody /\ request' = "none" /\ drawn' = << >>
        /\ UNCHANGED <<mem, left, entropy>>
    BY DEF HandOut, GivenOut
  <1>2. /\ mem \in Memories /\ me \in Processes /\ left \in Nat /\ drawn \in Seq(Keystreams) /\ entropy \in Nat
        /\ used \in SUBSET Keystreams /\ OnceInv(mem, Live, used, drawn, entropy)
        /\ past \in [Processes -> SUBSET Keystreams] /\ since \in [Processes -> Nat]
    BY RandomFacts
  <1>3. GivenOut(drawn) \subseteq Keystreams
    BY <1>2 DEF GivenOut
  <1>4. /\ past' \in [Processes -> SUBSET Keystreams] /\ past'[me] = past[me] \cup GivenOut(drawn)
        /\ \A q \in Processes \ {me} : past'[q] = past[q]
    BY <1>1, <1>2, <1>3
  <1>5. /\ since' \in [Processes -> Nat] /\ since'[me] = since[me] + Len(drawn)
        /\ \A q \in Processes \ {me} : since'[q] = since[q]
    <2>1. since[me] + Len(drawn) \in Nat
      BY <1>2
    <2> QED BY <1>1, <1>2, <2>1
  <1>6. OnceInv(mem', Live', used', drawn', entropy')
    <2>1. Live' \subseteq Live
      BY <1>1 DEF Live, Generators
    <2>2. OnceInv(mem, Live, used', << >>, entropy)
      BY <1>1, <1>2, HandOnce
    <2>3. used' \in SUBSET Keystreams
      BY <1>1, <1>2, <1>3
    <2> QED BY <1>1, <1>2, <2>1, <2>2, <2>3, NoneGiven, ShrinkOnce
  <1>7. CallInv'
    <2>1. used' \subseteq Keystreams
      BY <1>1, <1>2, <1>3
    <2> QED BY <1>1, <1>2, <1>4, <1>5, <2>1, NoneGiven, NobodyIs DEF CallInv, Memories
  <1>8. ASSUME NEW q \in Processes PROVE Behind(mem'[q], past'[q] \cup IF q = me' THEN GivenOut(drawn') ELSE {})
    <2>1. Behind(mem[q], AllGiven[q]) /\ AllGiven[q] = past[q] \cup IF q = me THEN GivenOut(drawn) ELSE {}
      BY RandomFacts
    <2>2. AllGiven[q] = past'[q]
      BY <1>4, <2>1
    <2>3. past'[q] \cup (IF q = me' THEN GivenOut(drawn') ELSE {}) = past'[q]
      BY <1>1, NoneGiven
    <2> QED BY <1>1, <2>1, <2>2, <2>3
  <1>9. CountInv'
    <2>1. ASSUME NEW q \in Generators(mem)
          PROVE  \/ mem[q].rs.count = 0
                 \/ since'[q] + mem[q].rs.count + 0 < 2 * REKEY_BASE
      <3>1. /\ q \in Processes /\ mem[q] \in ProcType
            /\ \/ mem[q].rs.count = 0
               \/ since[q] + mem[q].rs.count + (IF q = me /\ rpc = "take" THEN Len(drawn) + left ELSE 0) < 2 * REKEY_BASE
        BY <1>2 DEF RandomInv, CountInv, Generators, Memories
      <3> DEFINE a == since[q]
                 b == mem[q].rs.count
                 l == Len(drawn)
      <3>2. a \in Nat /\ b \in Int /\ l \in Nat /\ REKEY_BASE \in Nat
        BY <1>2, <3>1, ProcFields, SizesAre
      <3>3. CASE q = me /\ rpc = "take"
        <4>1. since'[q] = a + l /\ (b = 0 \/ a + b + (l + 0) < 2 * REKEY_BASE)
          BY <1>1, <1>5, <3>1, <3>3
        <4> HIDE DEF a, b, l
        <4>2. b = 0 \/ (a + l) + b + 0 < 2 * REKEY_BASE
          BY <3>2, <4>1
        <4> QED BY <4>1, <4>2 DEF b
      <3>4. CASE ~ (q = me /\ rpc = "take")
        <4>1. q = me => l = 0
          BY <3>4, NoneGiven, RandomFacts
        <4>2. since'[q] = a
          BY <1>2, <1>5, <3>1, <4>1
        <4> QED BY <3>1, <3>4, <4>2
      <3> QED BY <3>3, <3>4
    <2> QED BY <1>1, <2>1 DEF CountInv, ReseededInTime
  <1> QED BY <1>6, <1>7, <1>8, <1>9, InvAfter

LEMMA ForkInv ==
  ASSUME RandomInv, NEW p \in Processes, NEW q \in Processes, Fork(p, q)
  PROVE  RandomInv'
  <1>1. PICK k \in Pids \ {1} : mem' = [mem EXCEPT ![q] = [mem[p] EXCEPT !.pid = k,
                                                           !.forked = mem[p].forked \/ Allocated(mem[p])]]
    BY DEF Fork
  <1> DEFINE s == mem[p]
             t == [s EXCEPT !.pid = k, !.forked = s.forked \/ Allocated(s)]
  <1>2. /\ rpc = "idle" /\ past' = [past EXCEPT ![q] = past[p]] /\ since' = [since EXCEPT ![q] = since[p]]
        /\ UNCHANGED <<me, request, left, drawn, rpc, entropy, used>>
    BY DEF Fork
  <1>3. /\ mem \in Memories /\ me \in Processes /\ left \in Nat /\ drawn \in Seq(Keystreams) /\ entropy \in Nat
        /\ used \in SUBSET Keystreams /\ OnceInv(mem, Live, used, drawn, entropy)
        /\ past \in [Processes -> SUBSET Keystreams] /\ since \in [Processes -> Nat] /\ drawn = << >>
        /\ s \in ProcType /\ (Allocated(s) => Sound(s))
    BY <1>2, RandomFacts
  <1>4. \A r \in Processes : Behind(mem[r], past[r])
    BY <1>2, RandomFacts
  <1>5. /\ t \in ProcType /\ t.rsx = s.rsx /\ t.rs = s.rs /\ (Allocated(s) => IsFork(t))
    <2>1. k \in Nat
      BY Arc4randomAssumption
    <2>2. (s.forked \/ Allocated(s)) \in BOOLEAN
      BY DEF Allocated
    <2> DEFINE f == s.forked \/ Allocated(s)
    <2>3. f \in BOOLEAN /\ (Allocated(s) => f) /\ t = [s EXCEPT !.pid = k, !.forked = f]
      BY <2>2
    <2> HIDE DEF f, t
    <2>4. t \in ProcType /\ t.rsx = s.rsx /\ t.rs = s.rs /\ t.forked = f
      BY <1>3, <2>1, <2>3 DEF ProcType
    <2> QED BY <2>3, <2>4 DEF IsFork
  <1>6. mem' = [mem EXCEPT ![q] = t]
    BY <1>1
  <1> HIDE DEF s, t
  <1>7. /\ mem' \in Memories /\ mem'[q] = t /\ (\A r \in Processes \ {q} : mem'[r] = mem[r])
        /\ past' \in [Processes -> SUBSET Keystreams] /\ past'[q] = past[p] /\ (\A r \in Processes \ {q} : past'[r] = past[r])
        /\ since' \in [Processes -> Nat] /\ since'[q] = since[p] /\ (\A r \in Processes \ {q} : since'[r] = since[r])
    BY <1>2, <1>3, <1>5, <1>6 DEF Memories
  <1>8. (Allocated(t) <=> Allocated(s)) /\ (Allocated(t) => Sound(t))
    <2>1. Key(t) = Key(s) /\ Counter(t) = Counter(s) /\ Buf(t) = Buf(s)
      BY <1>5 DEF Key, Counter, Buf
    <2> QED BY <1>3, <1>5, <2>1 DEF Allocated, Sound
  <1>9. \A r \in Live' : r \in Live /\ r # q /\ mem'[r] = mem[r]
    <2> SUFFICES ASSUME NEW r \in Live' PROVE r \in Live /\ r # q /\ mem'[r] = mem[r]
      OBVIOUS
    <2>1. r \in Processes /\ Allocated(mem'[r]) /\ ~ IsFork(mem'[r]) /\ mem'[r].rs.count > 0
      BY <1>2 DEF Live, Generators
    <2>2. r # q
      BY <1>5, <1>7, <1>8, <2>1
    <2> QED BY <1>7, <2>1, <2>2 DEF Live, Generators
  <1>10. OnceInv(mem', Live', used', drawn', entropy')
    <2>1. Live' \subseteq Generators(mem')
      BY DEF Live
    <2>2. ASSUME NEW r \in Generators(mem')
          PROVE  Sound(mem'[r]) /\ \E o \in Generators(mem) :
                   mem'[r].rsx = mem[o].rsx /\ (r \in Live' => o = r /\ mem'[r].rs.have = mem[r].rs.have)
      <3>1. r \in Processes /\ Allocated(mem'[r])
        BY DEF Generators
      <3>2. CASE r = q
        <4>1. p \in Generators(mem)
          BY <1>7, <1>8, <3>1, <3>2 DEF Generators, s
        <4>2. Sound(t) /\ mem'[r].rsx = mem[p].rsx /\ r \notin Live'
          BY <1>5, <1>7, <1>8, <1>9, <3>1, <3>2 DEF s
        <4> QED BY <1>7, <3>2, <4>1, <4>2
      <3>3. CASE r # q
        <4>1. mem'[r] = mem[r] /\ r \in Generators(mem)
          BY <1>7, <3>1, <3>3 DEF Generators
        <4> QED BY <3>1, <4>1, RandomFacts
      <3> QED BY <3>2, <3>3
    <2>3. OnceInv(mem', Live', used, drawn, entropy)
      BY <1>3, <1>9, <2>1, <2>2, FrameOnce
    <2> QED BY <1>2, <2>3
  <1>11. CallInv'
    <2>1. request \in {"none", "buf", "addrandom", "u32", "stir"}
      BY DEF RandomInv, CallInv
    <2> QED BY <1>2, <1>3, <1>7, <2>1 DEF CallInv, Memories
  <1>12. ASSUME NEW r \in Processes PROVE Behind(mem'[r], past'[r] \cup IF r = me' THEN GivenOut(drawn') ELSE {})
    <2>1. Behind(mem'[r], past'[r])
      <3>1. CASE r = q
        <4>1. Behind(s, past[p])
          BY <1>4 DEF s
        <4> QED BY <1>5, <1>7, <1>8, <3>1, <4>1, SameBehind
      <3>2. CASE r # q
        BY <1>4, <1>7, <3>2
      <3> QED BY <3>1, <3>2
    <2>2. past'[r] \cup (IF r = me' THEN GivenOut(drawn') ELSE {}) = past'[r]
      BY <1>2, <1>3, NoneGiven
    <2> QED BY <2>1, <2>2
  <1>13. CountInv'
    <2>1. \A r \in Generators(mem) : mem[r].rs.count = 0 \/ since[r] + mem[r].rs.count + 0 < 2 * REKEY_BASE
      BY <1>2 DEF RandomInv, CountInv
    <2>2. ASSUME NEW r \in Generators(mem')
          PROVE  mem'[r].rs.count = 0 \/ since'[r] + mem'[r].rs.count + 0 < 2 * REKEY_BASE
      <3>1. r \in Processes /\ Allocated(mem'[r])
        BY DEF Generators
      <3>2. CASE r = q
        <4>1. p \in Generators(mem) /\ mem'[r].rs = mem[p].rs
          BY <1>5, <1>7, <1>8, <3>1, <3>2 DEF Generators, s
        <4> QED BY <1>7, <2>1, <3>2, <4>1
      <3>3. CASE r # q
        BY <1>7, <2>1, <3>1, <3>3 DEF Generators
      <3> QED BY <3>2, <3>3
    <2> QED BY <1>2, <2>2 DEF CountInv, ReseededInTime
  <1> QED BY <1>10, <1>11, <1>12, <1>13, InvAfter

LEMMA DieInv ==
  ASSUME RandomInv, NEW p \in Processes, Die(p)
  PROVE  RandomInv'
  <1>1. /\ mem' = [mem EXCEPT ![p] = Gone] /\ past' = [past EXCEPT ![p] = {}] /\ since' = [since EXCEPT ![p] = 0]
        /\ rpc' = "idle" /\ me' = Nobody /\ request' = "none" /\ left' = 0 /\ drawn' = << >> /\ rpc # "take"
        /\ UNCHANGED <<entropy, used>>
    BY DEF Die
  <1>2. /\ mem \in Memories /\ entropy \in Nat /\ drawn = << >> /\ drawn \in Seq(Keystreams)
        /\ used \in SUBSET Keystreams /\ OnceInv(mem, Live, used, drawn, entropy)
        /\ past \in [Processes -> SUBSET Keystreams] /\ since \in [Processes -> Nat]
    BY <1>1, RandomFacts
  <1>3. \A r \in Processes : Behind(mem[r], past[r])
    BY <1>1, RandomFacts
  <1>4. Gone \in ProcType /\ ~ Allocated(Gone)
    <2>1. <<0, 0>> \in Counters /\ << >> \in Seq(Parts) /\ << >> \in Seq(Keystreams \cup {Zero})
      BY FirstCounter
    <2>2. NoRsx = [input |-> [key |-> << >>, counter |-> <<0, 0>>], buf |-> << >>]
      BY DEF NoRsx, Keyed
    <2>3. Gone \in ProcType
      BY <2>1, <2>2 DEF Gone, NoRs, ProcType
    <2> QED BY <2>3 DEF Gone, Allocated
  <1>5. /\ mem' \in Memories /\ mem'[p] = Gone /\ (\A r \in Processes \ {p} : mem'[r] = mem[r])
        /\ past' \in [Processes -> SUBSET Keystreams] /\ past'[p] = {} /\ (\A r \in Processes \ {p} : past'[r] = past[r])
        /\ since' \in [Processes -> Nat] /\ since'[p] = 0 /\ (\A r \in Processes \ {p} : since'[r] = since[r])
    BY <1>1, <1>2, <1>4 DEF Memories
  <1>6. \A r \in Generators(mem') : r \in Processes /\ r # p /\ mem'[r] = mem[r] /\ r \in Generators(mem)
    BY <1>4, <1>5 DEF Generators
  <1>7. Live' \subseteq Live /\ Live' \subseteq Generators(mem')
    <2>1. Live' \subseteq Generators(mem')
      BY DEF Live
    <2>2. ASSUME NEW r \in Live' PROVE r \in Live
      <3>1. r \in Generators(mem') /\ ~ IsFork(mem'[r]) /\ mem'[r].rs.count > 0
        BY <1>1 DEF Live
      <3> QED BY <1>6, <3>1 DEF Live
    <2> QED BY <2>1, <2>2
  <1>8. OnceInv(mem', Live', used', drawn', entropy')
    <2>1. ASSUME NEW r \in Generators(mem')
          PROVE  Sound(mem'[r]) /\ \E o \in Generators(mem) :
                   mem'[r].rsx = mem[o].rsx /\ (r \in Live' => o = r /\ mem'[r].rs.have = mem[r].rs.have)
      BY <1>6, RandomFacts
    <2>2. OnceInv(mem', Live', used, drawn, entropy)
      BY <1>2, <1>7, <2>1, FrameOnce
    <2> QED BY <1>1, <1>2, <2>2
  <1>9. CallInv'
    BY <1>1, <1>2, <1>5, NoneGiven, NobodyIs DEF CallInv, Memories
  <1>10. ASSUME NEW r \in Processes PROVE Behind(mem'[r], past'[r] \cup IF r = me' THEN GivenOut(drawn') ELSE {})
    <2>1. Behind(mem'[r], past'[r])
      <3>1. CASE r = p
        BY <1>5, <3>1 DEF Behind
      <3>2. CASE r # p
        BY <1>3, <1>5, <3>2
      <3> QED BY <3>1, <3>2
    <2>2. past'[r] \cup (IF r = me' THEN GivenOut(drawn') ELSE {}) = past'[r]
      BY <1>1, NoneGiven
    <2> QED BY <2>1, <2>2
  <1>11. CountInv'
    <2>1. ASSUME NEW r \in Generators(mem')
          PROVE  mem'[r].rs.count = 0 \/ since'[r] + mem'[r].rs.count + 0 < 2 * REKEY_BASE
      <3>1. mem[r].rs.count = 0 \/ since[r] + mem[r].rs.count + 0 < 2 * REKEY_BASE
        BY <1>1, <1>6 DEF RandomInv, CountInv
      <3> QED BY <1>5, <1>6, <3>1
    <2> QED BY <1>1, <2>1 DEF CountInv, ReseededInTime
  <1> QED BY <1>8, <1>9, <1>10, <1>11, InvAfter

-----------------------------------------------------------------------------
(* Every step keeps the invariant *)

LEMMA RandomKeeps ==
  ASSUME RandomInv, [RandomStep \/ RandomCall]_avars
  PROVE  RandomInv'
  <1>1. CASE RandomStep
    <2>1. Stir \/ CountDown \/ TakeSome \/ TakeRekey \/ TakeVal \/ AddRandom \/ HandOut
      BY <1>1 DEF RandomStep
    <2> QED BY <2>1, StirInv, CountDownInv, TakeSomeInv, TakeRekeyInv, TakeValInv, AddRandomInv, HandOutInv
  <1>2. CASE RandomCall
    <2>1. CASE \E p \in Processes : Begin(p) \/ Die(p)
      BY <2>1, BeginInv, DieInv
    <2>2. CASE \E p, q \in Processes : Fork(p, q)
      BY <2>2, ForkInv
    <2> QED BY <1>2, <2>1, <2>2 DEF RandomCall
  <1>3. CASE UNCHANGED avars
    <2>1. UNCHANGED <<mem, me, request, left, drawn, rpc, entropy, used, past, since>>
      BY <1>3 DEF avars
    <2>2. CallInv'
      BY <2>1 DEF RandomInv, CallInv
    <2>3. Live' = Live
      BY <2>1 DEF Live, Generators
    <2>4. OnceInv(mem', Live', used', drawn', entropy')
      BY <2>1, <2>3 DEF RandomInv
    <2>5. CountInv'
      BY <2>1 DEF RandomInv, CountInv, ReseededInTime, Generators
    <2>6. ASSUME NEW q \in Processes PROVE Behind(mem'[q], past'[q] \cup IF q = me' THEN GivenOut(drawn') ELSE {})
      <3>1. Behind(mem[q], AllGiven[q]) /\ AllGiven[q] = past[q] \cup IF q = me THEN GivenOut(drawn) ELSE {}
        BY RandomFacts
      <3> QED BY <2>1, <3>1
    <2> QED BY <2>2, <2>4, <2>5, <2>6, InvAfter
  <1> QED BY <1>1, <1>2, <1>3

LEMMA RandomAlways == RandomSpec => []RandomInv
  <1>1. RandomInit => RandomInv
    BY RandomFirst
  <1>2. RandomInv /\ [RandomStep \/ RandomCall]_avars => RandomInv'
    BY RandomKeeps
  <1> QED BY <1>1, <1>2, PTL DEF RandomSpec

(* GivenOnce: no byte of keystream that a caller gets was given out or used *)
(* before, whatever calls, rekeying and forks came between.                *)
THEOREM BytesGivenOnce == RandomSpec => []GivenOnce
  <1>1. RandomInv => GivenOnce
    <2> SUFFICES ASSUME RandomInv PROVE GivenOnce
      OBVIOUS
    <2>1. drawn \in Seq(Keystreams)
      BY RandomFacts
    <2>2. used \cap GivenOut(drawn) = {} /\ Distinct(drawn)
      BY DEF RandomInv, OnceInv, Unmixed
    <2>3. ASSUME NEW k \in 1..Len(drawn) PROVE drawn[k] # Zero /\ drawn[k] \notin used
      <3>1. drawn[k] \in Keystreams
        BY <2>1
      <3>2. drawn[k] \in GivenOut(drawn)
        BY DEF GivenOut
      <3> QED BY <2>2, <3>1, <3>2, ZeroIsNoByte
    <2> QED BY <2>2, <2>3 DEF GivenOnce, Distinct
  <1> QED BY <1>1, RandomAlways, PTL

(* PastIsGone: what a process gave out is not in its buffer when a call has *)
(* ended, and was made with none of the keys that can be had from its own. *)
THEOREM PastAlwaysGone == RandomSpec => []PastIsGone
  <1>1. RandomInv => PastIsGone
    <2> SUFFICES ASSUME RandomInv, rpc = "idle", NEW p \in Alive, NEW b \in past[p]
                 PROVE  /\ ~ IsPrefix(mem[p].rsx.input.key, b[1])
                        /\ \A k \in 1..Len(mem[p].rsx.buf) : mem[p].rsx.buf[k] # b
      BY DEF PastIsGone
    <2>1. p \in Processes
      BY DEF Alive
    <2>2. Behind(mem[p], past[p]) /\ (Allocated(mem[p]) => Sound(mem[p])) /\ mem[p] \in ProcType
          /\ past[p] \in SUBSET Keystreams
      BY <2>1, RandomFacts
    <2>3. Len(b[1]) < Len(Key(mem[p])) /\ (\A k \in 1..RSBUFSZ : Buf(mem[p])[k] # b) /\ Sound(mem[p])
      BY <2>2 DEF Behind
    <2>4. b[1] \in Seq(Parts) /\ Key(mem[p]) \in Seq(Parts)
      BY <2>2, ProcFields DEF Keystreams
    <2>5. Len(b[1]) \in Nat /\ Len(Key(mem[p])) \in Nat
      BY <2>4
    <2>6. ~ IsPrefix(Key(mem[p]), b[1])
      BY <2>3, <2>5 DEF IsPrefix
    <2>7. Len(Buf(mem[p])) = RSBUFSZ
      BY <2>3 DEF Sound
    <2> QED BY <2>3, <2>6, <2>7 DEF Key, Buf
  <1> QED BY <1>1, RandomAlways, PTL

(* ReseededInTime: no call takes bytes when twice REKEY_BASE were given out *)
(* since there was fresh entropy.                                          *)
THEOREM AlwaysReseeded == RandomSpec => []ReseededInTime
  <1>1. RandomInv => ReseededInTime
    BY DEF RandomInv, CountInv
  <1> QED BY <1>1, RandomAlways, PTL
=============================================================================
