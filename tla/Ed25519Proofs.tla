------------------------------ MODULE Ed25519Proofs -------------------------
(***************************************************************************)
(* Proofs about the signatures and the numbers they are made of.           *)
(*                                                                         *)
(* Scalar, for every modulus, base and number of limbs that Barrett's      *)
(* reduction serves: after any operation a scalar is the right one and     *)
(* below m, and the windows stand for it. Quotient and RemainderIs hold the*)
(* argument: the estimate is at most two below the quotient, whatever the  *)
(* places that are neglected add up to.                                    *)
(*                                                                         *)
(* Field, for every number and size of the limbs: an element stands for its*)
(* residue modulo p with limbs small enough for the next operation, four   *)
(* passes are enough after a sum (FourPasses) and two after a product      *)
(* (TwoPasses), and freezing once is enough for what is below 2^255.       *)
(*                                                                         *)
(* Ed25519, for every set of seeds and messages and any number of          *)
(* signatures: a buffer is opened exactly if it was signed with the key,   *)
(* and no two messages are signed with one nonce.                          *)
(***************************************************************************)
EXTENDS Ed25519, Field, Scalar, WellFoundedInduction, TLAPS

-----------------------------------------------------------------------------
(* Induction over the numbers, for a set of them.                          *)
LEMMA NatLeast ==
  ASSUME NEW T \in SUBSET Nat, T # {}
  PROVE  \E least \in T : \A n \in T : least <= n
  <1> DEFINE R == OpToRel(<, Nat)
  <1>1. IsWellFoundedOn(R, Nat)
    BY NatLessThanWellFounded
  <1>2. \A x, y \in Nat : <<y, x>> \in R <=> y < x
    BY DEF R, OpToRel
  <1> HIDE DEF R
  <1>3. PICK least \in T : \A n \in T : ~ (<<n, least>> \in R)
    BY <1>1, WFMin
  <1>4. \A n \in T : least \in Nat /\ n \in Nat /\ ~ (n < least)
    BY <1>2, <1>3
  <1> QED BY <1>4

LEMMA NatInSet ==
  ASSUME NEW S, 0 \in S, \A n \in Nat : n \in S => n + 1 \in S
  PROVE  Nat \subseteq S
  <1> SUFFICES ASSUME Nat \ S # {} PROVE FALSE
    OBVIOUS
  <1>1. PICK least \in Nat \ S : \A n \in Nat \ S : least <= n
    BY NatLeast
  <1>2. least # 0 /\ least - 1 \in Nat /\ least - 1 \in S
    BY <1>1
  <1>3. (least - 1) + 1 \in S
    BY <1>2
  <1> QED BY <1>1, <1>3

-----------------------------------------------------------------------------
(* Products and remainders.                                                *)
LEMMA NextMultiple ==
  ASSUME NEW b \in Nat, NEW p \in Nat, NEW q \in Nat, p < q
  PROVE  b * p + b <= b * q
  <1>1. PICK d \in Nat : q = p + 1 + d
    <2>1. q - p - 1 \in Nat /\ q = p + 1 + (q - p - 1)
      OBVIOUS
    <2> QED BY <2>1
  <1>2. b * q = b * p + b + b * d /\ b * d \in Nat /\ b * p \in Nat
    BY <1>1
  <1> QED BY <1>2

LEMMA DivMod ==
  ASSUME NEW n \in Nat, NEW b \in Nat \ {0}
  PROVE  n = b * (n \div b) + (n % b) /\ n % b \in 0..(b - 1) /\ n \div b \in Nat
  <1> DEFINE x == n \div b
             y == n % b
  <1>1. y \in 0..(b - 1) /\ n = b * x + y /\ x \in Int
    OBVIOUS
  <1> HIDE DEF x, y
  <1>2. ~ (x < 0)
    <2> SUFFICES ASSUME x < 0 PROVE FALSE
      OBVIOUS
    <2>1. -x - 1 \in Nat /\ x = -1 - (-x - 1)
      BY <1>1
    <2>2. b * (-x - 1) \in Nat /\ b * x = -b - b * (-x - 1)
      BY <2>1
    <2> QED BY <1>1, <2>2
  <1>3. x \in Nat
    BY <1>1, <1>2
  <1> QED BY <1>1, <1>3 DEF x, y

LEMMA DivModIs ==
  ASSUME NEW n \in Nat, NEW b \in Nat \ {0}, NEW q \in Nat, NEW r \in 0..(b - 1), n = b * q + r
  PROVE  n \div b = q /\ n % b = r
  <1> DEFINE x == n \div b
             y == n % b
  <1>1. n = b * x + y /\ y \in 0..(b - 1) /\ x \in Nat
    BY DivMod
  <1> HIDE DEF x, y
  <1>2. b * x \in Nat /\ b * q \in Nat
    BY <1>1
  <1>3. ~ (x < q)
    <2> SUFFICES ASSUME x < q PROVE FALSE
      OBVIOUS
    <2>1. b * x + b <= b * q
      BY <1>1, NextMultiple
    <2> QED BY <1>1, <1>2, <2>1
  <1>4. ~ (q < x)
    <2> SUFFICES ASSUME q < x PROVE FALSE
      OBVIOUS
    <2>1. b * q + b <= b * x
      BY <1>1, NextMultiple
    <2> QED BY <1>1, <1>2, <2>1
  <1>5. q = x
    BY <1>1, <1>3, <1>4
  <1>6. r = y
    BY <1>1, <1>2, <1>5
  <1> QED BY <1>5, <1>6 DEF x, y

LEMMA ModSum ==
  ASSUME NEW l \in Nat, NEW n \in Nat, NEW b \in Nat \ {0}
  PROVE  /\ (l + n) % b = ((l % b) + n) % b
         /\ (l + n) \div b = l \div b + ((l % b) + n) \div b
  <1> DEFINE q == l \div b
             r == l % b
             x == (r + n) \div b
             y == (r + n) % b
  <1>1. l = b * q + r /\ r \in 0..(b - 1) /\ q \in Nat
    BY DivMod
  <1>2. r + n \in Nat
    BY <1>1
  <1>3. r + n = b * x + y /\ y \in 0..(b - 1) /\ x \in Nat
    <2> HIDE DEF r
    <2> QED BY <1>2, DivMod
  <1> HIDE DEF q, r, x, y
  <1>4. b * (q + x) = b * q + b * x /\ b * q \in Nat /\ b * x \in Nat /\ q + x \in Nat
    BY <1>1, <1>3
  <1>5. l + n = b * (q + x) + y /\ l + n \in Nat
    BY <1>1, <1>3, <1>4
  <1>6. (l + n) \div b = q + x /\ (l + n) % b = y
    BY <1>3, <1>4, <1>5, DivModIs
  <1> QED BY <1>6 DEF q, r, x, y

LEMMA ModPlus ==
  ASSUME NEW l \in Nat, NEW n \in Nat, NEW b \in Nat \ {0}
  PROVE  (l + n) % b = ((l % b) + n) % b
  BY ModSum

-----------------------------------------------------------------------------
(* Recursive functions: there is one for every first value and step.       *)
Runs(g, c, step, n) == g[0] = c /\ \A k \in 1..n : g[k] = step[<<k, g[k - 1]>>]

LEMMA RunsOnce ==
  ASSUME NEW c, NEW step, NEW n \in Nat, NEW g, NEW h, Runs(g, c, step, n), Runs(h, c, step, n)
  PROVE  \A k \in 0..n : g[k] = h[k]
  <1> DEFINE T == {k \in Nat : k <= n => g[k] = h[k]}
  <1>1. 0 \in T
    BY DEF Runs
  <1>2. ASSUME NEW k \in Nat, k \in T PROVE k + 1 \in T
    <2> SUFFICES ASSUME k + 1 <= n PROVE g[k + 1] = h[k + 1]
      OBVIOUS
    <2>1. k + 1 \in 1..n /\ (k + 1) - 1 = k /\ g[k] = h[k]
      BY <1>2
    <2> QED BY <2>1 DEF Runs
  <1> HIDE DEF T
  <1>3. Nat \subseteq T
    BY <1>1, <1>2, NatInSet
  <1> QED BY <1>3 DEF T

Recursion(f, S, c, step) ==
  f \in [Nat -> S] /\ f[0] = c /\ \A n \in Nat : f[n + 1] = step[<<n + 1, f[n]>>]

LEMMA RecursionExists ==
  ASSUME NEW S, NEW c \in S, NEW step \in [Nat \X S -> S]
  PROVE  \E f : Recursion(f, S, c, step)
  <1> DEFINE T == {n \in Nat : \E g \in [0..n -> S] : Runs(g, c, step, n)}
  <1>1. 0 \in T
    <2> DEFINE g == [k \in 0..0 |-> c]
    <2>1. g \in [0..0 -> S] /\ Runs(g, c, step, 0)
      BY DEF Runs
    <2> QED BY <2>1
  <1>2. ASSUME NEW n \in Nat, n \in T PROVE n + 1 \in T
    <2>1. PICK g \in [0..n -> S] : Runs(g, c, step, n)
      BY <1>2
    <2> DEFINE h == [k \in 0..(n + 1) |-> IF k = n + 1 THEN step[<<n + 1, g[n]>>] ELSE g[k]]
    <2>2. g[n] \in S /\ step[<<n + 1, g[n]>>] \in S
      <3>1. g[n] \in S
        OBVIOUS
      <3>2. <<n + 1, g[n]>> \in Nat \X S
        BY <3>1
      <3> QED BY <3>1, <3>2
    <2>3. h \in [0..(n + 1) -> S]
      BY <2>2
    <2>4. h[0] = c
      BY <2>1 DEF Runs
    <2>5. ASSUME NEW k \in 1..(n + 1) PROVE h[k] = step[<<k, h[k - 1]>>]
      <3>1. CASE k = n + 1
        <4>1. h[k] = step[<<n + 1, g[n]>>] /\ h[k - 1] = g[n]
          BY <3>1
        <4> QED BY <3>1, <4>1
      <3>2. CASE k # n + 1
        <4>1. k \in 1..n /\ h[k] = g[k] /\ h[k - 1] = g[k - 1]
          BY <3>2
        <4> HIDE DEF h
        <4> QED BY <2>1, <4>1 DEF Runs
      <3> QED BY <3>1, <3>2
    <2> HIDE DEF h
    <2>6. Runs(h, c, step, n + 1)
      BY <2>4, <2>5 DEF Runs
    <2> QED BY <2>3, <2>6
  <1>3. Nat \subseteq T
    <2> HIDE DEF T
    <2> QED BY <1>1, <1>2, NatInSet
  <1> DEFINE runs == [n \in Nat |-> CHOOSE g \in [0..n -> S] : Runs(g, c, step, n)]
             f == [n \in Nat |-> runs[n][n]]
  <1>4. ASSUME NEW n \in Nat PROVE runs[n] \in [0..n -> S] /\ Runs(runs[n], c, step, n)
    <2>1. \E g \in [0..n -> S] : Runs(g, c, step, n)
      BY <1>3
    <2> QED BY <2>1
  <1> HIDE DEF runs
  <1>5. f \in [Nat -> S]
    BY <1>4
  <1>6. f[0] = c
    BY <1>4 DEF Runs
  <1>7. ASSUME NEW n \in Nat PROVE f[n + 1] = step[<<n + 1, f[n]>>]
    <2>1. Runs(runs[n + 1], c, step, n + 1)
      BY <1>4
    <2>2. Runs(runs[n + 1], c, step, n)
      BY <2>1 DEF Runs
    <2>3. runs[n + 1][n] = runs[n][n]
      BY <1>4, <2>2, RunsOnce
    <2>4. runs[n + 1][n + 1] = step[<<n + 1, runs[n + 1][n]>>]
      <3>1. n + 1 \in 1..(n + 1) /\ (n + 1) - 1 = n
        OBVIOUS
      <3> QED BY <2>1, <3>1 DEF Runs
    <2> QED BY <2>3, <2>4
  <1> HIDE DEF f
  <1> QED BY <1>5, <1>6, <1>7 DEF Recursion

(* The same up to a number, as a LET has it.                               *)
Steps(h, S, len, c, step) ==
  h \in [0..len -> S] /\ h[0] = c /\ \A n \in 1..len : h[n] = step[<<n, h[n - 1]>>]

LEMMA StepsExist ==
  ASSUME NEW S, NEW len \in Nat, NEW c \in S, NEW step \in [Nat \X S -> S]
  PROVE  \E h : Steps(h, S, len, c, step)
  <1>1. PICK g : Recursion(g, S, c, step)
    BY RecursionExists
  <1>2. g \in [Nat -> S] /\ g[0] = c /\ \A n \in Nat : g[n + 1] = step[<<n + 1, g[n]>>]
    BY <1>1 DEF Recursion
  <1> DEFINE h == [n \in 0..len |-> g[n]]
  <1>3. h \in [0..len -> S] /\ h[0] = c
    BY <1>2
  <1>4. ASSUME NEW n \in 1..len PROVE h[n] = step[<<n, h[n - 1]>>]
    <2>1. n - 1 \in Nat /\ (n - 1) + 1 = n /\ n - 1 \in 0..len /\ n \in 0..len
      OBVIOUS
    <2>2. g[n] = step[<<n, g[n - 1]>>]
      BY <1>2, <2>1
    <2> QED BY <2>1, <2>2
  <1> HIDE DEF h
  <1> QED BY <1>3, <1>4 DEF Steps

LEMMA PowerIs == Power \in [Nat -> Nat \ {0}] /\ Power[0] = 1 /\ \A n \in Nat : Power[n + 1] = 2 * Power[n]
  <1> DEFINE S == Nat \ {0}
             step == [p \in Nat \X S |-> 2 * p[2]]
             IsPower(f) == f = [n \in Nat |-> IF n = 0 THEN 1 ELSE 2 * f[n - 1]]
  <1>1. PICK f \in [Nat -> S] : f[0] = 1 /\ \A n \in Nat : f[n + 1] = step[<<n + 1, f[n]>>]
    <2>1. step \in [Nat \X S -> S] /\ 1 \in S
      OBVIOUS
    <2> HIDE DEF step, S
    <2>2. \E f : Recursion(f, S, 1, step)
      BY <2>1, RecursionExists
    <2> QED BY <2>2 DEF Recursion
  <1>2. ASSUME NEW n \in Nat PROVE f[n] = IF n = 0 THEN 1 ELSE 2 * f[n - 1]
    <2>1. CASE n = 0
      BY <1>1, <2>1
    <2>2. CASE n # 0
      <3>1. n - 1 \in Nat /\ (n - 1) + 1 = n
        BY <2>2
      <3>2. f[n - 1] \in S /\ f[n] = step[<<n, f[n - 1]>>]
        BY <1>1, <3>1
      <3> QED BY <2>2, <3>2
    <2> QED BY <2>1, <2>2
  <1> HIDE DEF step
  <1>3. IsPower(f)
    BY <1>1, <1>2
  <1>4. IsPower(Power)
    BY <1>3 DEF Power
  <1>5. DOMAIN Power = Nat /\ \A n \in Nat : Power[n] = IF n = 0 THEN 1 ELSE 2 * Power[n - 1]
    BY <1>4
  <1>6. Power[0] = 1 /\ \A n \in Nat : Power[n + 1] = 2 * Power[n]
    <2>1. Power[0] = 1
      BY <1>5
    <2>2. ASSUME NEW n \in Nat PROVE Power[n + 1] = 2 * Power[n]
      <3>1. n + 1 \in Nat /\ n + 1 # 0 /\ (n + 1) - 1 = n
        OBVIOUS
      <3> QED BY <1>5, <3>1
    <2> QED BY <2>1, <2>2
  <1>7. \A n \in Nat : Power[n] \in S
    <2> DEFINE T == {n \in Nat : Power[n] \in S}
    <2>1. 0 \in T
      BY <1>6
    <2>2. ASSUME NEW n \in Nat, n \in T PROVE n + 1 \in T
      <3>1. Power[n] \in Nat /\ Power[n] # 0 /\ Power[n + 1] = 2 * Power[n]
        BY <1>6, <2>2
      <3> QED BY <3>1
    <2> HIDE DEF T
    <2>3. Nat \subseteq T
      BY <2>1, <2>2, NatInSet
    <2> QED BY <2>3 DEF T
  <1>8. Power = [n \in Nat |-> Power[n]]
    BY <1>4
  <1> QED BY <1>6, <1>7, <1>8

LEMMA PowerIn == \A n \in Nat : Power[n] \in Nat \ {0}
  BY PowerIs

LEMMA PowerSum ==
  ASSUME NEW a \in Nat, NEW b \in Nat
  PROVE  Power[a + b] = Power[a] * Power[b]
  <1> DEFINE T == {n \in Nat : Power[a + n] = Power[a] * Power[n]}
  <1>1. 0 \in T
    <2>1. Power[a] \in Nat
      BY PowerIn
    <2> QED BY <2>1, PowerIs
  <1>2. ASSUME NEW n \in Nat, n \in T PROVE n + 1 \in T
    <2>1. Power[a] \in Nat /\ Power[n] \in Nat /\ Power[a + n] = Power[a] * Power[n]
      BY <1>2, PowerIn
    <2>2. Power[n + 1] = 2 * Power[n] /\ Power[(a + n) + 1] = 2 * Power[a + n] /\ a + (n + 1) = (a + n) + 1
      BY PowerIs
    <2> QED BY <2>1, <2>2
  <1> HIDE DEF T
  <1>3. Nat \subseteq T
    BY <1>1, <1>2, NatInSet
  <1> QED BY <1>3 DEF T

(* Numbers cut twice.                                                      *)
LEMMA DivDiv ==
  ASSUME NEW n \in Nat, NEW a \in Nat \ {0}, NEW b \in Nat \ {0}
  PROVE  /\ n \div (a * b) = (n \div a) \div b
         /\ n % (a * b) = (n % a) + a * ((n \div a) % b)
  <1>1. PICK q \in Nat, r \in 0..(a - 1) : q = n \div a /\ r = n % a /\ n = a * q + r
    BY DivMod
  <1>2. PICK x \in Nat, y \in 0..(b - 1) : x = q \div b /\ y = q % b /\ q = b * x + y
    BY DivMod
  <1>3. a * y + a <= a * b /\ a * y \in Nat
    BY NextMultiple
  <1>4. a * b \in Nat \ {0}
    <2>1. a * b \in Nat
      OBVIOUS
    <2>2. a <= a * b
      BY <1>3
    <2> QED BY <2>1, <2>2
  <1>5. a * y + r \in 0..(a * b - 1)
    BY <1>3, <1>4
  <1>6. n = (a * b) * x + (a * y + r)
    <2>1. a * (b * x + y) = a * (b * x) + a * y /\ a * (b * x) = (a * b) * x
      OBVIOUS
    <2>2. a * q = a * (b * x + y)
      BY <1>2
    <2> QED BY <1>1, <1>3, <2>1, <2>2
  <1> DEFINE c == a * b
             z == a * y + r
  <1>7. c \in Nat \ {0} /\ z \in 0..(c - 1) /\ n = c * x + z
    BY <1>4, <1>5, <1>6
  <1> HIDE DEF c, z
  <1>8. n \div c = x /\ n % c = z
    BY <1>7, DivModIs
  <1>9. n \div (a * b) = x /\ n % (a * b) = z
    BY <1>8 DEF c
  <1>10. (n \div a) \div b = x /\ (n % a) + a * ((n \div a) % b) = r + a * y
    BY <1>1, <1>2
  <1>11. z = r + a * y
    BY <1>3 DEF z
  <1> QED BY <1>9, <1>10, <1>11

(* The same remainder whatever multiple is added.                          *)
LEMMA ModMultiple ==
  ASSUME NEW n \in Nat, NEW b \in Nat \ {0}, NEW c \in Nat
  PROVE  (n + b * c) % b = n % b /\ (n + b * c) \div b = n \div b + c
  <1>1. PICK x \in Nat, y \in 0..(b - 1) : x = n \div b /\ y = n % b /\ n = b * x + y
    BY DivMod
  <1>2. n + b * c = b * (x + c) + y /\ x + c \in Nat /\ b * c \in Nat
    <2>1. b * (x + c) = b * x + b * c /\ b * x \in Nat /\ b * c \in Nat
      OBVIOUS
    <2> QED BY <1>1, <2>1
  <1>3. n + b * c \in Nat
    BY <1>2
  <1> DEFINE z == n + b * c
  <1>4. z \div b = x + c /\ z % b = y
    <2>1. z \in Nat /\ z = b * (x + c) + y
      BY <1>2, <1>3
    <2> HIDE DEF z
    <2> QED BY <1>2, <2>1, DivModIs
  <1> QED BY <1>1, <1>4

-----------------------------------------------------------------------------
(* Sums.                                                                   *)
Adds(s, f, n) == s \in [0..n -> Int] /\ s[0] = 0 /\ \A k \in 1..n : s[k] = s[k - 1] + f[k - 1]

LEMMA AddsExist ==
  ASSUME NEW n \in Nat, NEW f, \A k \in 0..(n - 1) : f[k] \in Int
  PROVE  \E s : Adds(s, f, n) /\ Total(f, n) = s[n]
  <1> DEFINE step == [p \in Nat \X Int |-> IF p[1] \in 1..n THEN p[2] + f[p[1] - 1] ELSE 0]
             IsSum(g) == g = [k \in 0..n |-> IF k = 0 THEN 0 ELSE g[k - 1] + f[k - 1]]
             sum == CHOOSE g : IsSum(g)
  <1>1. step \in [Nat \X Int -> Int]
    <2> SUFFICES ASSUME NEW p \in Nat \X Int, p[1] \in 1..n PROVE p[2] + f[p[1] - 1] \in Int
      OBVIOUS
    <2>1. p[1] - 1 \in 0..(n - 1) /\ p[2] \in Int
      OBVIOUS
    <2> QED BY <2>1
  <1>2. PICK h : Steps(h, Int, n, 0, step)
    <2>1. 0 \in Int
      OBVIOUS
    <2> HIDE DEF step
    <2>2. \E h : Steps(h, Int, n, 0, step)
      BY <1>1, <2>1, StepsExist
    <2> QED BY <2>2
  <1>3. h \in [0..n -> Int] /\ h[0] = 0 /\ \A k \in 1..n : h[k] = step[<<k, h[k - 1]>>]
    BY <1>2 DEF Steps
  <1>4. ASSUME NEW k \in 1..n PROVE h[k] = h[k - 1] + f[k - 1]
    <2> DEFINE p == <<k, h[k - 1]>>
    <2>1. k - 1 \in 0..n /\ h[k - 1] \in Int
      BY <1>3
    <2>2. p \in Nat \X Int /\ p[1] = k /\ p[2] = h[k - 1]
      BY <2>1
    <2>3. h[k] = step[p]
      BY <1>3
    <2> HIDE DEF p
    <2>4. step[p] = p[2] + f[p[1] - 1]
      BY <2>2
    <2> HIDE DEF step
    <2> QED BY <2>2, <2>3, <2>4
  <1>5. IsSum(h)
    <2>1. h = [k \in 0..n |-> h[k]]
      BY <1>3
    <2>2. \A k \in 0..n : h[k] = IF k = 0 THEN 0 ELSE h[k - 1] + f[k - 1]
      BY <1>3, <1>4
    <2> QED BY <2>1, <2>2
  <1>6. IsSum(sum)
    BY <1>5
  <1>7. Total(f, n) = sum[n]
    BY DEF Total
  <1> HIDE DEF sum
  <1>8. sum[0] = 0 /\ \A k \in 1..n : sum[k] = sum[k - 1] + f[k - 1]
    BY <1>6
  <1> DEFINE T == {k \in Nat : k <= n => sum[k] = h[k]}
  <1>9. 0 \in T
    BY <1>3, <1>8
  <1>10. ASSUME NEW k \in Nat, k \in T PROVE k + 1 \in T
    <2> SUFFICES ASSUME k + 1 <= n PROVE sum[k + 1] = h[k + 1]
      OBVIOUS
    <2>1. k + 1 \in 1..n /\ (k + 1) - 1 = k /\ sum[k] = h[k]
      BY <1>10
    <2> QED BY <1>4, <1>8, <2>1
  <1> HIDE DEF T
  <1>11. Nat \subseteq T
    BY <1>9, <1>10, NatInSet
  <1>12. sum[n] = h[n]
    BY <1>11 DEF T
  <1> QED BY <1>3, <1>4, <1>7, <1>12 DEF Adds

LEMMA AddsOnce ==
  ASSUME NEW n \in Nat, NEW f, NEW g, \A k \in 0..(n - 1) : f[k] = g[k],
         NEW s, NEW t, NEW a \in Nat, NEW b \in Nat, n <= a, n <= b, Adds(s, f, a), Adds(t, g, b)
  PROVE  s[n] = t[n]
  <1> DEFINE T == {k \in Nat : k <= n => s[k] = t[k]}
  <1>1. 0 \in T
    BY DEF Adds
  <1>2. ASSUME NEW k \in Nat, k \in T PROVE k + 1 \in T
    <2> SUFFICES ASSUME k + 1 <= n PROVE s[k + 1] = t[k + 1]
      OBVIOUS
    <2>1. k + 1 \in 1..a /\ k + 1 \in 1..b /\ (k + 1) - 1 = k /\ s[k] = t[k] /\ f[k] = g[k]
      BY <1>2
    <2> QED BY <2>1 DEF Adds
  <1> HIDE DEF T
  <1>3. Nat \subseteq T
    BY <1>1, <1>2, NatInSet
  <1> QED BY <1>3 DEF T

LEMMA TotalSame ==
  ASSUME NEW n \in Nat, NEW f, NEW g, \A k \in 0..(n - 1) : f[k] \in Int /\ f[k] = g[k]
  PROVE  Total(f, n) = Total(g, n)
  <1>1. PICK s : Adds(s, f, n) /\ Total(f, n) = s[n]
    BY AddsExist
  <1>2. PICK t : Adds(t, g, n) /\ Total(g, n) = t[n]
    <2>1. \A k \in 0..(n - 1) : g[k] \in Int
      OBVIOUS
    <2> QED BY <2>1, AddsExist
  <1> QED BY <1>1, <1>2, AddsOnce

LEMMA TotalZero == \A f : Total(f, 0) = 0
  <1> SUFFICES ASSUME NEW f PROVE Total(f, 0) = 0
    OBVIOUS
  <1>1. PICK s : Adds(s, f, 0) /\ Total(f, 0) = s[0]
    BY AddsExist
  <1> QED BY <1>1 DEF Adds

LEMMA TotalNext ==
  ASSUME NEW n \in Nat, NEW f, \A k \in 0..n : f[k] \in Int
  PROVE  Total(f, n) \in Int /\ Total(f, n + 1) = Total(f, n) + f[n]
  <1>1. PICK s : Adds(s, f, n) /\ Total(f, n) = s[n]
    BY AddsExist
  <1>2. PICK t : Adds(t, f, n + 1) /\ Total(f, n + 1) = t[n + 1]
    <2>1. n + 1 \in Nat /\ \A k \in 0..((n + 1) - 1) : f[k] \in Int
      OBVIOUS
    <2> QED BY <2>1, AddsExist
  <1>3. s[n] = t[n]
    <2>1. n + 1 \in Nat /\ n <= n + 1 /\ \A k \in 0..(n - 1) : f[k] = f[k]
      OBVIOUS
    <2> QED BY <1>1, <1>2, <2>1, AddsOnce
  <1>4. n + 1 \in 1..(n + 1) /\ (n + 1) - 1 = n
    OBVIOUS
  <1> QED BY <1>1, <1>2, <1>3, <1>4 DEF Adds

-----------------------------------------------------------------------------
(* What limbs stand for.                                                   *)
LEMMA PlaceIs ==
  ASSUME NEW bits \in Nat, NEW n \in Nat
  PROVE  /\ Power[bits] \in Nat \ {0} /\ Power[bits * n] \in Nat \ {0}
         /\ Power[bits * (n + 1)] = Power[bits * n] * Power[bits]
         /\ Power[bits * 0] = 1
  <1>1. bits * n \in Nat /\ bits * (n + 1) = bits * n + bits /\ bits * 0 = 0
    OBVIOUS
  <1>2. Power[bits * n + bits] = Power[bits * n] * Power[bits]
    BY <1>1, PowerSum
  <1> QED BY <1>1, <1>2, PowerIn, PowerIs

LEMMA ValueZero == \A v, bits : ValueOf(v, 0, bits) = 0
  BY TotalZero DEF ValueOf

LEMMA ValueNext ==
  ASSUME NEW bits \in Nat, NEW n \in Nat, NEW v, \A k \in 0..n : v[k] \in Int
  PROVE  /\ ValueOf(v, n, bits) \in Int
         /\ ValueOf(v, n + 1, bits) = ValueOf(v, n, bits) + v[n] * Power[bits * n]
  <1> DEFINE f(l) == [k \in 0..(l - 1) |-> v[k] * Power[bits * k]]
             g == [k \in 0..n |-> v[k] * Power[bits * k]]
  <1>1. \A k \in 0..n : v[k] * Power[bits * k] \in Int
    <2> SUFFICES ASSUME NEW k \in 0..n PROVE v[k] * Power[bits * k] \in Int
      OBVIOUS
    <2>1. Power[bits * k] \in Int /\ v[k] \in Int
      BY PlaceIs
    <2> QED BY <2>1
  <1>2. \A k \in 0..n : g[k] \in Int /\ g[k] = v[k] * Power[bits * k]
    BY <1>1
  <1>3. \A k \in 0..(n - 1) : f(n)[k] = g[k]
    BY <1>2
  <1>4. \A k \in 0..((n + 1) - 1) : f(n + 1)[k] = g[k]
    BY <1>2
  <1>5. ValueOf(v, n, bits) = Total(f(n), n) /\ ValueOf(v, n + 1, bits) = Total(f(n + 1), n + 1)
    BY DEF ValueOf
  <1> HIDE DEF f, g
  <1>6. Total(f(n), n) = Total(g, n)
    <2>1. \A k \in 0..(n - 1) : g[k] \in Int /\ g[k] = f(n)[k]
      BY <1>2, <1>3
    <2> QED BY <2>1, TotalSame
  <1>7. Total(f(n + 1), n + 1) = Total(g, n + 1)
    <2>1. n + 1 \in Nat /\ \A k \in 0..((n + 1) - 1) : g[k] \in Int /\ g[k] = f(n + 1)[k]
      BY <1>2, <1>4
    <2> QED BY <2>1, TotalSame
  <1>8. Total(g, n) \in Int /\ Total(g, n + 1) = Total(g, n) + g[n]
    BY <1>2, TotalNext
  <1> QED BY <1>2, <1>5, <1>6, <1>7, <1>8

(* What holds of the value of no limbs, and of one limb more.              *)
LEMMA ValueSame ==
  ASSUME NEW bits \in Nat, NEW n \in Nat, NEW v, NEW u, \A k \in 0..(n - 1) : v[k] \in Int /\ v[k] = u[k]
  PROVE  ValueOf(v, n, bits) = ValueOf(u, n, bits)
  <1> DEFINE T == {l \in Nat : l <= n => ValueOf(v, l, bits) = ValueOf(u, l, bits)}
  <1>1. 0 \in T
    BY ValueZero
  <1>2. ASSUME NEW l \in Nat, l \in T PROVE l + 1 \in T
    <2> SUFFICES ASSUME l + 1 <= n PROVE ValueOf(v, l + 1, bits) = ValueOf(u, l + 1, bits)
      OBVIOUS
    <2>1. ValueOf(v, l, bits) = ValueOf(u, l, bits) /\ v[l] = u[l]
      BY <1>2
    <2>2. \A k \in 0..l : v[k] \in Int /\ u[k] \in Int
      OBVIOUS
    <2>3. ValueOf(v, l + 1, bits) = ValueOf(v, l, bits) + v[l] * Power[bits * l]
      BY <2>2, ValueNext
    <2>4. ValueOf(u, l + 1, bits) = ValueOf(u, l, bits) + u[l] * Power[bits * l]
      BY <2>2, ValueNext
    <2> QED BY <2>1, <2>3, <2>4
  <1> HIDE DEF T
  <1>3. Nat \subseteq T
    BY <1>1, <1>2, NatInSet
  <1> QED BY <1>3 DEF T

LEMMA ValueIsNat ==
  ASSUME NEW bits \in Nat, NEW n \in Nat, NEW v, \A k \in 0..(n - 1) : v[k] \in Nat
  PROVE  ValueOf(v, n, bits) \in Nat
  <1> DEFINE T == {l \in Nat : l <= n => ValueOf(v, l, bits) \in Nat}
  <1>1. 0 \in T
    BY ValueZero
  <1>2. ASSUME NEW l \in Nat, l \in T PROVE l + 1 \in T
    <2> SUFFICES ASSUME l + 1 <= n PROVE ValueOf(v, l + 1, bits) \in Nat
      OBVIOUS
    <2>1. ValueOf(v, l, bits) \in Nat /\ v[l] \in Nat
      BY <1>2
    <2>2. \A k \in 0..l : v[k] \in Int
      OBVIOUS
    <2>3. ValueOf(v, l + 1, bits) = ValueOf(v, l, bits) + v[l] * Power[bits * l]
      BY <2>2, ValueNext
    <2>4. Power[bits * l] \in Nat
      BY PlaceIs
    <2>5. v[l] * Power[bits * l] \in Nat
      BY <2>1, <2>4
    <2> QED BY <2>1, <2>3, <2>5
  <1> HIDE DEF T
  <1>3. Nat \subseteq T
    BY <1>1, <1>2, NatInSet
  <1> QED BY <1>3 DEF T

(* ScalarLimbs that are cut.                                                     *)
Cut(n, bits) == [0..(n - 1) -> 0..(Power[bits] - 1)]

LEMMA ValueBelow ==
  ASSUME NEW bits \in Nat, NEW n \in Nat, NEW v, \A k \in 0..(n - 1) : v[k] \in 0..(Power[bits] - 1)
  PROVE  ValueOf(v, n, bits) \in 0..(Power[bits * n] - 1)
  <1> DEFINE T == {l \in Nat : l <= n => ValueOf(v, l, bits) \in 0..(Power[bits * l] - 1)}
  <1>1. 0 \in T
    <2>1. Power[bits * 0] = 1 /\ ValueOf(v, 0, bits) = 0
      BY ValueZero, PlaceIs
    <2> QED BY <2>1
  <1>2. ASSUME NEW l \in Nat, l \in T PROVE l + 1 \in T
    <2> SUFFICES ASSUME l + 1 <= n PROVE ValueOf(v, l + 1, bits) \in 0..(Power[bits * (l + 1)] - 1)
      OBVIOUS
    <2>1. ValueOf(v, l, bits) \in 0..(Power[bits * l] - 1) /\ v[l] \in 0..(Power[bits] - 1)
      BY <1>2
    <2>2. \A k \in 0..l : v[k] \in Int
      <3>1. Power[bits] \in Nat
        BY PowerIn
      <3> QED BY <3>1
    <2>3. ValueOf(v, l + 1, bits) = ValueOf(v, l, bits) + v[l] * Power[bits * l]
      BY <2>2, ValueNext
    <2> DEFINE p == Power[bits * l]
               b == Power[bits]
    <2>4. p \in Nat \ {0} /\ b \in Nat \ {0} /\ Power[bits * (l + 1)] = p * b
      BY PlaceIs
    <2>5. p * v[l] + p <= p * b /\ p * v[l] \in Nat
      <3> HIDE DEF p
      <3>1. v[l] \in Nat /\ b \in Nat /\ v[l] < b
        BY <2>1, <2>4
      <3> HIDE DEF b
      <3> QED BY <2>4, <3>1, NextMultiple
    <2> QED BY <2>1, <2>3, <2>4, <2>5
  <1> HIDE DEF T
  <1>3. Nat \subseteq T
    BY <1>1, <1>2, NatInSet
  <1> QED BY <1>3 DEF T

LEMMA LimbsAreCut ==
  ASSUME NEW bits \in Nat, NEW n \in Nat, NEW x \in Nat
  PROVE  /\ LimbsOf(x, n, bits) \in Cut(n, bits)
         /\ \A k \in 0..(n - 1) : LimbsOf(x, n, bits)[k] = (x \div Power[bits * k]) % Power[bits]
  <1>1. ASSUME NEW k \in 0..(n - 1) PROVE (x \div Power[bits * k]) % Power[bits] \in 0..(Power[bits] - 1)
    <2>1. Power[bits] \in Nat \ {0} /\ Power[bits * k] \in Nat \ {0}
      BY PlaceIs
    <2>2. x \div Power[bits * k] \in Nat
      BY <2>1, DivMod
    <2> QED BY <2>1, <2>2
  <1> QED BY <1>1 DEF LimbsOf, Cut

LEMMA ValueOfLimbs ==
  ASSUME NEW bits \in Nat, NEW n \in Nat, NEW len \in Nat, n <= len, NEW x \in Nat
  PROVE  ValueOf(LimbsOf(x, len, bits), n, bits) = x % Power[bits * n]
  <1> DEFINE v == LimbsOf(x, len, bits)
             T == {l \in Nat : l <= n => ValueOf(v, l, bits) = x % Power[bits * l]}
  <1>1. 0 \in T
    <2>1. x % 1 = 0
      OBVIOUS
    <2> QED BY <2>1, ValueZero, PlaceIs
  <1>2. ASSUME NEW l \in Nat, l \in T PROVE l + 1 \in T
    <2> SUFFICES ASSUME l + 1 <= n PROVE ValueOf(v, l + 1, bits) = x % Power[bits * (l + 1)]
      OBVIOUS
    <2> DEFINE p == Power[bits * l]
               b == Power[bits]
    <2>1. p \in Nat \ {0} /\ b \in Nat \ {0} /\ Power[bits * (l + 1)] = p * b
      BY PlaceIs
    <2>2. ValueOf(v, l, bits) = x % p /\ v[l] = (x \div p) % b /\ \A k \in 0..l : v[k] \in Int
      <3>1. l \in 0..(len - 1) /\ 0..l \subseteq 0..(len - 1)
        OBVIOUS
      <3>2. v \in Cut(len, bits) /\ v[l] = (x \div p) % b
        BY <3>1, LimbsAreCut
      <3>3. \A k \in 0..l : v[k] \in 0..(b - 1)
        BY <3>1, <3>2 DEF Cut
      <3> QED BY <1>2, <2>1, <3>2, <3>3
    <2>3. ValueOf(v, l + 1, bits) = (x % p) + v[l] * p
      BY <2>2, ValueNext
    <2>4. x % (p * b) = (x % p) + p * ((x \div p) % b)
      <3> HIDE DEF p, b
      <3> QED BY <2>1, DivDiv
    <2>5. v[l] * p = p * ((x \div p) % b)
      <3>1. v[l] \in Int
        BY <2>2
      <3> HIDE DEF v
      <3> QED BY <2>1, <2>2, <3>1
    <2> QED BY <2>1, <2>3, <2>4, <2>5
  <1> HIDE DEF T
  <1>3. Nat \subseteq T
    BY <1>1, <1>2, NatInSet
  <1> QED BY <1>3 DEF T

(* The limbs of a number are no others.                                    *)
LEMMA LimbOfValue ==
  ASSUME NEW bits \in Nat, NEW n \in Nat, NEW v, \A k \in 0..(n - 1) : v[k] \in 0..(Power[bits] - 1)
  PROVE  \A k \in 0..(n - 1) : (ValueOf(v, n, bits) \div Power[bits * k]) % Power[bits] = v[k]
  <1> DEFINE Has(l) == \A k \in 0..(l - 1) : (ValueOf(v, l, bits) \div Power[bits * k]) % Power[bits] = v[k]
             T == {l \in Nat : l <= n => Has(l)}
  <1>1. 0 \in T
    OBVIOUS
  <1>2. ASSUME NEW l \in Nat, l \in T PROVE l + 1 \in T
    <2> SUFFICES ASSUME l + 1 <= n, NEW k \in 0..l
                 PROVE  (ValueOf(v, l + 1, bits) \div Power[bits * k]) % Power[bits] = v[k]
      OBVIOUS
    <2> DEFINE b == Power[bits]
               p == Power[bits * k]
               x == ValueOf(v, l, bits)
    <2>0. b \in Nat \ {0} /\ p \in Nat \ {0}
      <3>1. k \in Nat
        OBVIOUS
      <3> QED BY <3>1, PlaceIs
    <2>1. v[l] \in 0..(b - 1) /\ v[k] \in 0..(b - 1)
      OBVIOUS
    <2>2. x \in 0..(Power[bits * l] - 1)
      <3>1. \A i \in 0..(l - 1) : v[i] \in 0..(Power[bits] - 1)
        OBVIOUS
      <3> QED BY <3>1, ValueBelow
    <2>3. ValueOf(v, l + 1, bits) = x + v[l] * Power[bits * l]
      <3>1. \A i \in 0..l : v[i] \in Int
        BY <2>0
      <3> QED BY <3>1, ValueNext
    <2>4. CASE k = l
      <3>1. x \in 0..(p - 1) /\ ValueOf(v, l + 1, bits) = x + v[k] * p
        BY <2>2, <2>3, <2>4
      <3> DEFINE d == v[k]
                 y == ValueOf(v, l + 1, bits)
      <3>2. d \in Nat /\ d \in 0..(b - 1) /\ y = p * d + x
        <4>1. v[k] * p = p * v[k]
          BY <2>0, <2>1
        <4> HIDE DEF x
        <4> QED BY <2>0, <2>1, <3>1, <4>1
      <3>3. y \in Nat
        <4>1. p * d \in Nat /\ x \in Nat
          BY <2>0, <3>1, <3>2
        <4> QED BY <3>2, <4>1
      <3> HIDE DEF d, y, x, p, b
      <3>4. y \div p = d
        BY <2>0, <3>1, <3>2, <3>3, DivModIs
      <3>5. d % b = d
        BY <2>0, <3>2
      <3> QED BY <3>4, <3>5 DEF d, y, p, b
    <2>5. CASE k # l
      <3>1. k \in 0..(l - 1) /\ l - k - 1 \in Nat
        BY <2>5
      <3> DEFINE e == Power[bits * (l - k - 1)]
      <3>2. e \in Nat \ {0} /\ Power[bits * l] = p * (b * e)
        <4>1. bits * k \in Nat /\ bits * (l - k - 1) \in Nat /\ bits * l = bits * k + (bits + bits * (l - k - 1))
          <5>1. l = k + 1 + (l - k - 1)
            BY <3>1
          <5>2. bits * (k + 1 + (l - k - 1)) = bits * k + (bits + bits * (l - k - 1))
            OBVIOUS
          <5>3. bits * k \in Nat /\ bits * (l - k - 1) \in Nat
            BY <3>1
          <5> QED BY <5>1, <5>2, <5>3
        <4>2. Power[bits + bits * (l - k - 1)] = b * e
          BY <4>1, PowerSum
        <4>3. Power[bits * l] = p * Power[bits + bits * (l - k - 1)]
          <5>1. bits + bits * (l - k - 1) \in Nat
            BY <4>1
          <5> QED BY <4>1, <5>1, PowerSum
        <4> QED BY <4>1, <4>2, <4>3, PowerIn
      <3> DEFINE c == v[l]
                 y == x \div p
      <3>3. ValueOf(v, l + 1, bits) = x + p * (b * (e * c)) /\ x \in Nat /\ c \in Nat
        <4>1. c \in Nat /\ x \in Nat
          BY <2>1, <2>2
        <4>2. ValueOf(v, l + 1, bits) = x + c * (p * (b * e))
          BY <2>3, <3>2
        <4> HIDE DEF c, x, p, b, e
        <4>3. c * (p * (b * e)) = p * (b * (e * c))
          BY <2>0, <3>2, <4>1
        <4> QED BY <4>1, <4>2, <4>3
      <3> HIDE DEF c, e
      <3>4. e * c \in Nat /\ b * (e * c) \in Nat
        BY <2>0, <3>2, <3>3
      <3>5. y \in Nat /\ y % b = v[k]
        <4>1. y \in Nat
          BY <2>0, <3>3, DivMod
        <4> QED BY <1>2, <3>1, <4>1
      <3> HIDE DEF x
      <3>6. (x + p * (b * (e * c))) \div p = y + b * (e * c)
        <4> HIDE DEF p, b
        <4> QED BY <2>0, <3>3, <3>4, ModMultiple DEF y
      <3>7. (y + b * (e * c)) % b = y % b
        <4> HIDE DEF p, b, y
        <4> QED BY <2>0, <3>4, <3>5, ModMultiple
      <3> QED BY <3>3, <3>5, <3>6, <3>7
    <2> QED BY <2>4, <2>5
  <1> HIDE DEF T
  <1>3. Nat \subseteq T
    BY <1>1, <1>2, NatInSet
  <1>4. n \in T /\ n <= n
    BY <1>3
  <1> QED BY <1>4 DEF T

LEMMA LimbsUnique ==
  ASSUME NEW bits \in Nat, NEW n \in Nat, NEW v \in Cut(n, bits)
  PROVE  v = LimbsOf(ValueOf(v, n, bits), n, bits)
  <1>1. \A k \in 0..(n - 1) : v[k] \in 0..(Power[bits] - 1)
    BY DEF Cut
  <1>2. \A k \in 0..(n - 1) : (ValueOf(v, n, bits) \div Power[bits * k]) % Power[bits] = v[k]
    BY <1>1, LimbOfValue
  <1> DEFINE u == LimbsOf(ValueOf(v, n, bits), n, bits)
  <1>3. u = [k \in 0..(n - 1) |-> u[k]] /\ \A k \in 0..(n - 1) : u[k] = v[k]
    BY <1>2 DEF LimbsOf
  <1>4. v = [k \in 0..(n - 1) |-> v[k]]
    BY DEF Cut
  <1> HIDE DEF u
  <1>5. v = u
    BY <1>3, <1>4
  <1> QED BY <1>5 DEF u

(* The upper limbs stand for a multiple of what is above the lower ones.   *)
Upper(v, low, n) == [k \in 0..(n - 1) |-> v[low + k]]

LEMMA ValueSplit ==
  ASSUME NEW bits \in Nat, NEW low \in Nat, NEW n \in Nat, NEW v, \A k \in 0..(low + n - 1) : v[k] \in Int
  PROVE  ValueOf(v, low + n, bits) = ValueOf(v, low, bits) + Power[bits * low] * ValueOf(Upper(v, low, n), n, bits)
  <1> DEFINE u == Upper(v, low, n)
             Holds(l) == ValueOf(v, low + l, bits) = ValueOf(v, low, bits) + Power[bits * low] * ValueOf(u, l, bits)
             T == {l \in Nat : l <= n => Holds(l)}
  <1>0. \A k \in 0..(n - 1) : u[k] = v[low + k] /\ u[k] \in Int
    BY DEF Upper
  <1>00. ValueOf(v, low, bits) \in Int
    <2>1. CASE low = 0
      BY <2>1, ValueZero
    <2>2. CASE low # 0
      <3>1. low - 1 \in Nat /\ (low - 1) + 1 = low /\ \A k \in 0..(low - 1) : v[k] \in Int
        BY <2>2
      <3>2. ValueOf(v, low - 1, bits) \in Int /\ ValueOf(v, low, bits) = ValueOf(v, low - 1, bits) + v[low - 1] * Power[bits * (low - 1)]
        BY <3>1, ValueNext
      <3>3. Power[bits * (low - 1)] \in Int /\ v[low - 1] \in Int
        BY <3>1, PlaceIs
      <3>4. v[low - 1] * Power[bits * (low - 1)] \in Int
        BY <3>3
      <3> QED BY <3>2, <3>4
    <2> QED BY <2>1, <2>2
  <1>1. 0 \in T
    <2>1. ValueOf(u, 0, bits) = 0 /\ low + 0 = low /\ Power[bits * low] \in Nat
      BY ValueZero, PlaceIs
    <2>2. Power[bits * low] * 0 = 0
      BY <2>1
    <2> QED BY <1>00, <2>1, <2>2
  <1>2. ASSUME NEW l \in Nat, l \in T PROVE l + 1 \in T
    <2> SUFFICES ASSUME l + 1 <= n PROVE Holds(l + 1)
      OBVIOUS
    <2> DEFINE p == Power[bits * low]
               q == Power[bits * l]
               x == ValueOf(u, l, bits)
    <2>1. ValueOf(v, low + l, bits) = ValueOf(v, low, bits) + p * x
      BY <1>2
    <2>2. ValueOf(v, (low + l) + 1, bits) = ValueOf(v, low + l, bits) + v[low + l] * Power[bits * (low + l)]
      <3>1. low + l \in Nat /\ \A k \in 0..(low + l) : v[k] \in Int
        OBVIOUS
      <3> QED BY <3>1, ValueNext
    <2>3. x \in Int /\ ValueOf(u, l + 1, bits) = x + u[l] * q
      <3>1. \A k \in 0..l : u[k] \in Int
        BY <1>0
      <3> QED BY <3>1, ValueNext
    <2>4. u[l] = v[low + l] /\ u[l] \in Int
      BY <1>0
    <2>5. p \in Nat /\ q \in Nat /\ Power[bits * (low + l)] = p * q
      <3>1. bits * low \in Nat /\ bits * l \in Nat /\ bits * (low + l) = bits * low + bits * l
        OBVIOUS
      <3> QED BY <3>1, PowerSum, PowerIn
    <2> DEFINE c == u[l]
    <2>6. p * (x + c * q) = p * x + c * (p * q)
      <3> HIDE DEF p, q, x, c
      <3>1. c \in Int
        BY <2>4 DEF c
      <3> QED BY <2>3, <2>5, <3>1
    <2>7. p * x \in Int /\ c * (p * q) \in Int
      <3> HIDE DEF p, q, x, u
      <3>1. p * q \in Int
        BY <2>5
      <3> QED BY <2>3, <2>4, <2>5, <3>1
    <2> HIDE DEF u, x, p, q
    <2>8. low + (l + 1) = (low + l) + 1
      OBVIOUS
    <2>9. ValueOf(v, low + (l + 1), bits) = ValueOf(v, low, bits) + p * ValueOf(u, l + 1, bits)
      BY <1>00, <2>1, <2>2, <2>3, <2>4, <2>5, <2>6, <2>7, <2>8
    <2> QED BY <2>9 DEF p
  <1> HIDE DEF T
  <1>3. Nat \subseteq T
    BY <1>1, <1>2, NatInSet
  <1>4. Holds(n)
    BY <1>3 DEF T
  <1> QED BY <1>4

LEMMA ValueAdds ==
  ASSUME NEW bits \in Nat, NEW n \in Nat, NEW u, NEW v, NEW w,
         \A k \in 0..(n - 1) : u[k] \in Int /\ v[k] \in Int /\ w[k] = u[k] + v[k]
  PROVE  ValueOf(w, n, bits) = ValueOf(u, n, bits) + ValueOf(v, n, bits)
  <1> DEFINE Holds(l) == ValueOf(w, l, bits) = ValueOf(u, l, bits) + ValueOf(v, l, bits)
             T == {l \in Nat : l <= n => Holds(l)}
  <1>1. 0 \in T
    BY ValueZero
  <1>2. ASSUME NEW l \in Nat, l \in T PROVE l + 1 \in T
    <2> SUFFICES ASSUME l + 1 <= n PROVE Holds(l + 1)
      OBVIOUS
    <2>1. Holds(l) /\ u[l] \in Int /\ v[l] \in Int /\ w[l] = u[l] + v[l]
      BY <1>2
    <2>2. \A k \in 0..l : u[k] \in Int /\ v[k] \in Int /\ w[k] \in Int
      <3>1. \A k \in 0..l : k \in 0..(n - 1)
        OBVIOUS
      <3> QED BY <3>1
    <2> DEFINE p == Power[bits * l]
    <2>3. p \in Nat
      BY PlaceIs
    <2>4. ValueOf(u, l, bits) \in Int /\ ValueOf(u, l + 1, bits) = ValueOf(u, l, bits) + u[l] * p
      BY <2>2, ValueNext
    <2>5. ValueOf(v, l, bits) \in Int /\ ValueOf(v, l + 1, bits) = ValueOf(v, l, bits) + v[l] * p
      BY <2>2, ValueNext
    <2>6. ValueOf(w, l + 1, bits) = ValueOf(w, l, bits) + w[l] * p
      BY <2>2, ValueNext
    <2> HIDE DEF p
    <2>7. (u[l] + v[l]) * p = u[l] * p + v[l] * p /\ u[l] * p \in Int /\ v[l] * p \in Int
      BY <2>1, <2>3
    <2> QED BY <2>1, <2>4, <2>5, <2>6, <2>7
  <1> HIDE DEF T
  <1>3. Nat \subseteq T
    BY <1>1, <1>2, NatInSet
  <1> QED BY <1>3 DEF T

LEMMA ValueNone ==
  ASSUME NEW bits \in Nat, NEW n \in Nat, NEW v, \A k \in 0..(n - 1) : v[k] = 0
  PROVE  ValueOf(v, n, bits) = 0
  <1> DEFINE T == {l \in Nat : l <= n => ValueOf(v, l, bits) = 0}
  <1>1. 0 \in T
    BY ValueZero
  <1>2. ASSUME NEW l \in Nat, l \in T PROVE l + 1 \in T
    <2> SUFFICES ASSUME l + 1 <= n PROVE ValueOf(v, l + 1, bits) = 0
      OBVIOUS
    <2>1. ValueOf(v, l, bits) = 0 /\ v[l] = 0 /\ \A k \in 0..l : v[k] \in Int
      BY <1>2
    <2>2. ValueOf(v, l + 1, bits) = ValueOf(v, l, bits) + v[l] * Power[bits * l]
      BY <2>1, ValueNext
    <2>3. Power[bits * l] \in Nat
      BY PlaceIs
    <2> QED BY <2>1, <2>2, <2>3
  <1> HIDE DEF T
  <1>3. Nat \subseteq T
    BY <1>1, <1>2, NatInSet
  <1> QED BY <1>3 DEF T

LEMMA ValueTimes ==
  ASSUME NEW bits \in Nat, NEW n \in Nat, NEW c \in Int, NEW v, NEW w,
         \A k \in 0..(n - 1) : v[k] \in Int /\ w[k] = c * v[k]
  PROVE  ValueOf(w, n, bits) = c * ValueOf(v, n, bits)
  <1> DEFINE Holds(l) == ValueOf(w, l, bits) = c * ValueOf(v, l, bits)
             T == {l \in Nat : l <= n => Holds(l)}
  <1>1. 0 \in T
    <2>1. c * 0 = 0
      OBVIOUS
    <2> QED BY <2>1, ValueZero
  <1>2. ASSUME NEW l \in Nat, l \in T PROVE l + 1 \in T
    <2> SUFFICES ASSUME l + 1 <= n PROVE Holds(l + 1)
      OBVIOUS
    <2>1. Holds(l) /\ v[l] \in Int /\ w[l] = c * v[l]
      BY <1>2
    <2>2. \A k \in 0..l : v[k] \in Int /\ w[k] \in Int
      <3>1. \A k \in 0..l : k \in 0..(n - 1)
        OBVIOUS
      <3>2. \A k \in 0..l : v[k] \in Int /\ w[k] = c * v[k]
        BY <3>1
      <3> QED BY <3>2
    <2> DEFINE p == Power[bits * l]
    <2>3. p \in Nat
      BY PlaceIs
    <2> DEFINE x == ValueOf(v, l, bits)
               y == v[l]
    <2>4. x \in Int /\ ValueOf(v, l + 1, bits) = x + y * p
      BY <2>2, ValueNext
    <2>5. ValueOf(w, l + 1, bits) = ValueOf(w, l, bits) + w[l] * p
      BY <2>2, ValueNext
    <2>6. y \in Int /\ w[l] = c * y
      BY <2>1
    <2> HIDE DEF p, x, y
    <2>7. c * (x + y * p) = c * x + (c * y) * p
      BY <2>3, <2>4, <2>6
    <2> QED BY <2>1, <2>4, <2>5, <2>6, <2>7 DEF x
  <1> HIDE DEF T
  <1>3. Nat \subseteq T
    BY <1>1, <1>2, NatInSet
  <1> QED BY <1>3 DEF T

(* All places of a product together stand for the product.                 *)
Filled(x) == [k \in Nat |-> Limb(x, k)]

(* The places to which only the p lowest limbs of x have been added.       *)
PlaceTo(x, y, p, k) == Total([i \in 0..k |-> Limb(x, i) * Limb(y, k - i)], IF p <= k THEN p ELSE k + 1)

Added(x, y, p, k) == IF p <= k THEN Limb(x, p) * Limb(y, k - p) ELSE 0

LEMMA FilledIs ==
  ASSUME NEW a \in Nat, NEW x, DOMAIN x = 0..(a - 1), \A k \in 0..(a - 1) : x[k] \in Int
  PROVE  /\ \A k \in Nat : Filled(x)[k] = Limb(x, k) /\ Limb(x, k) \in Int
         /\ \A k \in Nat : k >= a => Limb(x, k) = 0
         /\ \A k \in 0..(a - 1) : Limb(x, k) = x[k]
  BY DEF Filled, Limb

LEMMA PlaceNext ==
  ASSUME NEW a \in Nat, NEW x, DOMAIN x = 0..(a - 1), \A k \in 0..(a - 1) : x[k] \in Int,
         NEW b \in Nat, NEW y, DOMAIN y = 0..(b - 1), \A k \in 0..(b - 1) : y[k] \in Int,
         NEW p \in Nat, NEW k \in Nat
  PROVE  /\ PlaceTo(x, y, p, k) \in Int
         /\ PlaceTo(x, y, p + 1, k) = PlaceTo(x, y, p, k) + Added(x, y, p, k)
  <1> DEFINE f == [i \in 0..k |-> Limb(x, i) * Limb(y, k - i)]
  <1>1. \A i \in 0..k : f[i] \in Int /\ f[i] = Limb(x, i) * Limb(y, k - i)
    <2> SUFFICES ASSUME NEW i \in 0..k PROVE Limb(x, i) * Limb(y, k - i) \in Int
      OBVIOUS
    <2>1. Limb(x, i) \in Int
      <3>1. i \in Nat
        OBVIOUS
      <3> QED BY <3>1, FilledIs
    <2>2. Limb(y, k - i) \in Int
      <3>1. k - i \in Nat
        OBVIOUS
      <3> QED BY <3>1, FilledIs
    <2> QED BY <2>1, <2>2
  <1> HIDE DEF f
  <1>2. \A q \in Nat : PlaceTo(x, y, q, k) = Total(f, IF q <= k THEN q ELSE k + 1)
    BY DEF PlaceTo, f
  <1>3. \A q \in 0..k : Total(f, q) \in Int /\ Total(f, q + 1) = Total(f, q) + f[q]
    <2> SUFFICES ASSUME NEW q \in 0..k PROVE Total(f, q) \in Int /\ Total(f, q + 1) = Total(f, q) + f[q]
      OBVIOUS
    <2>1. q \in Nat /\ \A i \in 0..q : f[i] \in Int
      BY <1>1
    <2> QED BY <2>1, TotalNext
  <1>4. Total(f, k + 1) \in Int
    <2>1. k \in 0..k
      OBVIOUS
    <2>2. Total(f, k) \in Int /\ Total(f, k + 1) = Total(f, k) + f[k] /\ f[k] \in Int
      BY <1>1, <1>3, <2>1
    <2> QED BY <2>2
  <1>5. CASE p < k
    <2>1. p \in 0..k /\ p + 1 \in Nat /\ p + 1 <= k
      BY <1>5
    <2>2. PlaceTo(x, y, p + 1, k) = Total(f, p + 1) /\ PlaceTo(x, y, p, k) = Total(f, p)
      BY <1>2, <2>1
    <2>3. Total(f, p) \in Int /\ Total(f, p + 1) = Total(f, p) + f[p]
      BY <1>3, <2>1
    <2>4. f[p] = Limb(x, p) * Limb(y, k - p)
      BY <1>1, <2>1
    <2> QED BY <1>5, <2>2, <2>3, <2>4 DEF Added
  <1>6. CASE p = k
    <2>1. p \in 0..k /\ p + 1 \in Nat /\ ~ (p + 1 <= k)
      BY <1>6
    <2>2. PlaceTo(x, y, p + 1, k) = Total(f, p + 1) /\ PlaceTo(x, y, p, k) = Total(f, p)
      BY <1>2, <1>6, <2>1
    <2>3. Total(f, p) \in Int /\ Total(f, p + 1) = Total(f, p) + f[p]
      BY <1>3, <2>1
    <2>4. f[p] = Limb(x, p) * Limb(y, k - p)
      BY <1>1, <2>1
    <2> QED BY <1>6, <2>2, <2>3, <2>4 DEF Added
  <1>7. CASE p > k
    <2>1. p + 1 \in Nat /\ ~ (p + 1 <= k) /\ ~ (p <= k)
      BY <1>7
    <2>2. PlaceTo(x, y, p + 1, k) = Total(f, k + 1) /\ PlaceTo(x, y, p, k) = Total(f, k + 1)
      BY <1>2, <2>1
    <2> QED BY <1>4, <2>1, <2>2 DEF Added
  <1> QED BY <1>5, <1>6, <1>7

Columns(x, y) == [k \in Nat |-> Column(x, y, k)]

LEMMA ProductIs ==
  ASSUME NEW bits \in Nat,
         NEW a \in Nat, NEW x, DOMAIN x = 0..(a - 1), \A k \in 0..(a - 1) : x[k] \in Int,
         NEW b \in Nat, NEW y, DOMAIN y = 0..(b - 1), \A k \in 0..(b - 1) : y[k] \in Int,
         NEW n \in Nat, n >= a + b
  PROVE  ValueOf(Columns(x, y), n, bits) = ValueOf(Filled(x), n, bits) * ValueOf(Filled(y), n, bits)
  <1> DEFINE X == Filled(x)
             Y == Filled(y)
             S(p) == [k \in Nat |-> PlaceTo(x, y, p, k)]
             all == ValueOf(Y, n, bits)
             Holds(p) == ValueOf(S(p), n, bits) = ValueOf(X, p, bits) * all
             T == {p \in Nat : p <= n => Holds(p)}
  <1>1. \A k \in Nat : X[k] = Limb(x, k) /\ X[k] \in Int /\ (k >= a => X[k] = 0)
    BY FilledIs
  <1>2. \A k \in Nat : Y[k] = Limb(y, k) /\ Y[k] \in Int /\ (k >= b => Y[k] = 0)
    BY FilledIs
  <1> HIDE DEF X, Y
  <1>3. \A l \in Nat : ValueOf(X, l, bits) \in Int /\ ValueOf(Y, l, bits) \in Int
    <2> SUFFICES ASSUME NEW l \in Nat PROVE ValueOf(X, l, bits) \in Int /\ ValueOf(Y, l, bits) \in Int
      OBVIOUS
    <2>1. \A k \in 0..l : X[k] \in Int /\ Y[k] \in Int
      BY <1>1, <1>2
    <2> QED BY <2>1, ValueNext
  <1>4. \A l \in b..n : ValueOf(Y, l, bits) = all
    <2> SUFFICES ASSUME NEW l \in b..n PROVE ValueOf(Y, l, bits) = all
      OBVIOUS
    <2> DEFINE u == Upper(Y, l, n - l)
    <2>1. l \in Nat /\ n - l \in Nat /\ l + (n - l) = n
      OBVIOUS
    <2>2. \A k \in 0..((n - l) - 1) : u[k] = 0 /\ u[k] \in Int
      <3> SUFFICES ASSUME NEW k \in 0..((n - l) - 1) PROVE u[k] = 0
        OBVIOUS
      <3>1. l + k \in Nat /\ l + k >= b
        BY <2>1
      <3> QED BY <1>2, <3>1 DEF Upper
    <2>3. ValueOf(Y, l + (n - l), bits) = ValueOf(Y, l, bits) + Power[bits * l] * ValueOf(u, n - l, bits)
      <3> DEFINE r == n - l
      <3>1. r \in Nat /\ l \in Nat
        BY <2>1
      <3>2. \A k \in 0..(l + r - 1) : Y[k] \in Int
        BY <1>2, <3>1
      <3> HIDE DEF r
      <3>3. ValueOf(Y, l + r, bits) = ValueOf(Y, l, bits) + Power[bits * l] * ValueOf(Upper(Y, l, r), r, bits)
        BY <3>1, <3>2, ValueSplit
      <3> QED BY <3>3 DEF r
    <2> HIDE DEF u
    <2>4. ValueOf(u, n - l, bits) = 0
      BY <2>1, <2>2, ValueNone
    <2>5. Power[bits * l] \in Nat /\ ValueOf(u, n - l, bits) = 0
      BY <2>1, <2>4, PlaceIs
    <2> QED BY <1>3, <2>1, <2>3, <2>5
  <1>5. 0 \in T
    <2> DEFINE s == S(0)
    <2>1. \A k \in 0..(n - 1) : s[k] = 0
      <3> SUFFICES ASSUME NEW k \in 0..(n - 1) PROVE PlaceTo(x, y, 0, k) = 0
        OBVIOUS
      <3> QED BY TotalZero DEF PlaceTo
    <2> HIDE DEF s
    <2>2. ValueOf(s, n, bits) = 0
      BY <2>1, ValueNone
    <2>3. ValueOf(X, 0, bits) = 0 /\ 0 * all = 0
      BY <1>3, ValueZero
    <2> QED BY <2>2, <2>3 DEF s
  <1>6. ASSUME NEW p \in Nat, p \in T PROVE p + 1 \in T
    <2> SUFFICES ASSUME p + 1 <= n PROVE Holds(p + 1)
      OBVIOUS
    <2> DEFINE s == S(p)
               t == S(p + 1)
               d == [k \in Nat |-> IF p <= k THEN Limb(x, p) * Limb(y, k - p) ELSE 0]
               c == X[p]
               u == Upper(d, p, n - p)
               Prod == Power[bits * p]
    <2>0. Prod \in Nat /\ c \in Int /\ n - p \in Nat /\ p + (n - p) = n /\ p \in Nat
      BY <1>1, PlaceIs
    <2>1. \A k \in Nat : s[k] \in Int /\ t[k] = s[k] + d[k]
      <3> SUFFICES ASSUME NEW k \in Nat PROVE s[k] \in Int /\ t[k] = s[k] + d[k]
        OBVIOUS
      <3>1. s[k] = PlaceTo(x, y, p, k) /\ t[k] = PlaceTo(x, y, p + 1, k)
        OBVIOUS
      <3>2. d[k] = Added(x, y, p, k)
        BY DEF Added
      <3> HIDE DEF s, t, d
      <3>3. PlaceTo(x, y, p, k) \in Int
        BY PlaceNext
      <3>4. PlaceTo(x, y, p + 1, k) = PlaceTo(x, y, p, k) + Added(x, y, p, k)
        BY PlaceNext
      <3> QED BY <3>1, <3>2, <3>3, <3>4
    <2>2. \A k \in Nat : d[k] = (IF p <= k THEN c * Y[k - p] ELSE 0) /\ d[k] \in Int
      <3> SUFFICES ASSUME NEW k \in Nat PROVE d[k] = (IF p <= k THEN c * Y[k - p] ELSE 0) /\ d[k] \in Int
        OBVIOUS
      <3>1. CASE p <= k
        <4>1. k - p \in Nat
          BY <3>1
        <4>2. Y[k - p] = Limb(y, k - p) /\ Y[k - p] \in Int /\ c = Limb(x, p)
          BY <1>1, <1>2, <4>1
        <4>3. c * Y[k - p] \in Int
          <5> HIDE DEF c
          <5> QED BY <2>0, <4>2
        <4> QED BY <3>1, <4>2, <4>3
      <3>2. CASE ~ (p <= k)
        BY <3>2
      <3> QED BY <3>1, <3>2
    <2> HIDE DEF s, t, d, c, Prod
    <2>3. ValueOf(t, n, bits) = ValueOf(s, n, bits) + ValueOf(d, n, bits)
      <3>1. \A k \in 0..(n - 1) : s[k] \in Int /\ d[k] \in Int /\ t[k] = s[k] + d[k]
        BY <2>1, <2>2
      <3> QED BY <3>1, ValueAdds
    <2>4. ValueOf(d, n, bits) = ValueOf(d, p, bits) + Prod * ValueOf(u, n - p, bits)
      <3> DEFINE r == n - p
      <3>1. r \in Nat
        BY <2>0
      <3>2. \A k \in 0..(p + r - 1) : d[k] \in Int
        BY <2>2, <3>1
      <3> HIDE DEF r
      <3>3. ValueOf(d, p + r, bits) = ValueOf(d, p, bits) + Power[bits * p] * ValueOf(Upper(d, p, r), r, bits)
        BY <3>1, <3>2, ValueSplit
      <3> QED BY <2>0, <3>3 DEF Prod, r
    <2>5. ValueOf(d, p, bits) = 0
      <3>1. \A k \in 0..(p - 1) : d[k] = 0
        <4> SUFFICES ASSUME NEW k \in 0..(p - 1) PROVE d[k] = 0
          OBVIOUS
        <4>1. k \in Nat /\ ~ (p <= k)
          OBVIOUS
        <4> QED BY <2>2, <4>1
      <3> QED BY <3>1, ValueNone
    <2>6. ValueOf(u, n - p, bits) = c * ValueOf(Y, n - p, bits)
      <3>1. \A k \in 0..((n - p) - 1) : Y[k] \in Int /\ u[k] = c * Y[k]
        <4> SUFFICES ASSUME NEW k \in 0..((n - p) - 1) PROVE Y[k] \in Int /\ u[k] = c * Y[k]
          OBVIOUS
        <4>1. u[k] = d[p + k]
          BY DEF Upper
        <4>2. p + k \in Nat /\ p <= p + k /\ (p + k) - p = k /\ k \in Nat
          BY <2>0
        <4> QED BY <1>2, <2>2, <4>1, <4>2
      <3> HIDE DEF u
      <3> QED BY <2>0, <3>1, ValueTimes
    <2>7. c * ValueOf(Y, n - p, bits) = c * all
      <3>1. CASE p >= a
        <4>1. c = 0
          BY <1>1, <3>1 DEF c
        <4> QED BY <1>3, <2>0, <4>1
      <3>2. CASE p < a
        <4>1. n - p \in b..n
          BY <3>2
        <4> QED BY <1>4, <4>1
      <3> QED BY <3>1, <3>2
    <2>8. ValueOf(X, p + 1, bits) = ValueOf(X, p, bits) + c * Prod
      <3>1. \A k \in 0..p : X[k] \in Int
        BY <1>1
      <3> QED BY <3>1, ValueNext DEF c, Prod
    <2>9. ValueOf(s, n, bits) = ValueOf(X, p, bits) * all
      BY <1>6 DEF s
    <2> DEFINE z == ValueOf(X, p, bits)
    <2>10. all \in Int /\ z \in Int
      BY <1>3
    <2> HIDE DEF u, z, all
    <2>11. (z + c * Prod) * all = z * all + Prod * (c * all)
      BY <2>0, <2>10
    <2>12. Prod * (c * all) \in Int /\ z * all \in Int
      <3>1. c * all \in Int
        BY <2>0, <2>10
      <3> QED BY <2>0, <2>10, <3>1
    <2>13. ValueOf(t, n, bits) = ValueOf(X, p + 1, bits) * all
      BY <2>0, <2>3, <2>4, <2>5, <2>6, <2>7, <2>8, <2>9, <2>10, <2>11, <2>12 DEF z
    <2> QED BY <2>13 DEF t, all
  <1> HIDE DEF T
  <1>7. Nat \subseteq T
    BY <1>5, <1>6, NatInSet
  <1>8. Holds(n)
    BY <1>7 DEF T
  <1>9. ValueOf(Columns(x, y), n, bits) = ValueOf(S(n), n, bits)
    <2> DEFINE s == S(n)
               t == Columns(x, y)
    <2>1. \A k \in 0..(n - 1) : s[k] \in Int /\ s[k] = t[k]
      <3> SUFFICES ASSUME NEW k \in 0..(n - 1) PROVE PlaceTo(x, y, n, k) \in Int /\ PlaceTo(x, y, n, k) = Column(x, y, k)
        BY DEF Columns
      <3>1. k \in Nat /\ ~ (n <= k)
        OBVIOUS
      <3>2. PlaceTo(x, y, n, k) \in Int
        BY <3>1, PlaceNext
      <3>3. PlaceTo(x, y, n, k) = Column(x, y, k)
        BY <3>1 DEF PlaceTo, Column
      <3> QED BY <3>2, <3>3
    <2> HIDE DEF s, t
    <2>2. ValueOf(s, n, bits) = ValueOf(t, n, bits)
      BY <2>1, ValueSame
    <2> QED BY <2>2 DEF s, t
  <1> QED BY <1>8, <1>9 DEF X, Y

-----------------------------------------------------------------------------
(* Carries and borrows.                                                    *)
LEMMA Stays ==
  ASSUME NEW S, NEW n \in Nat, NEW f, f[0] \in S, \A k \in 1..n : f[k - 1] \in S => f[k] \in S
  PROVE  \A k \in 0..n : f[k] \in S
  <1> DEFINE T == {k \in Nat : k <= n => f[k] \in S}
  <1>1. 0 \in T
    OBVIOUS
  <1>2. ASSUME NEW k \in Nat, k \in T PROVE k + 1 \in T
    <2> SUFFICES ASSUME k + 1 <= n PROVE f[k + 1] \in S
      OBVIOUS
    <2>1. k + 1 \in 1..n /\ (k + 1) - 1 = k /\ f[k] \in S
      BY <1>2
    <2> QED BY <2>1
  <1> HIDE DEF T
  <1>3. Nat \subseteq T
    BY <1>1, <1>2, NatInSet
  <1> QED BY <1>3 DEF T

Carry(c, v, n, b) ==
  c[0] = 0 /\ (\A k \in 0..(n - 1) : c[k] \in Nat) /\ \A k \in 1..(n - 1) : c[k] = (v[k - 1] + c[k - 1]) \div b

CarriedBy(c, v, n, b) ==
  [i \in 0..(n - 1) |-> IF i + 1 \in 0..(n - 1) THEN (v[i] + c[i]) % b ELSE v[i] + c[i]]

LEMMA CarryExists ==
  ASSUME NEW b \in Nat \ {0}, NEW n \in Nat \ {0}, NEW v, DOMAIN v = 0..(n - 1), \A k \in 0..(n - 1) : v[k] \in Nat
  PROVE  \E c : /\ Carry(c, v, n, b)
                /\ Carried(v, b) = CarriedBy(c, v, n, b)
  <1> DEFINE step == [p \in Nat \X Nat |-> IF p[1] \in 1..(n - 1) THEN (v[p[1] - 1] + p[2]) \div b ELSE 0]
             IsCarry(g) == g = [i \in 0..(n - 1) |-> IF i = 0 THEN 0 ELSE (v[i - 1] + g[i - 1]) \div b]
             c == CHOOSE g : IsCarry(g)
  <1>0. ASSUME NEW k \in 1..(n - 1), NEW x \in Nat PROVE (v[k - 1] + x) \div b \in Nat
    <2>1. k - 1 \in 0..(n - 1) /\ v[k - 1] + x \in Nat
      OBVIOUS
    <2> QED BY <2>1, DivMod
  <1>1. step \in [Nat \X Nat -> Nat]
    <2> SUFFICES ASSUME NEW p \in Nat \X Nat, p[1] \in 1..(n - 1) PROVE (v[p[1] - 1] + p[2]) \div b \in Nat
      OBVIOUS
    <2> QED BY <1>0
  <1>2. PICK h : Steps(h, Nat, n - 1, 0, step)
    <2>1. 0 \in Nat /\ n - 1 \in Nat
      OBVIOUS
    <2> HIDE DEF step
    <2>2. \E h : Steps(h, Nat, n - 1, 0, step)
      BY <1>1, <2>1, StepsExist
    <2> QED BY <2>2
  <1>3. h \in [0..(n - 1) -> Nat] /\ h[0] = 0 /\ \A k \in 1..(n - 1) : h[k] = step[<<k, h[k - 1]>>]
    BY <1>2 DEF Steps
  <1>4. ASSUME NEW k \in 1..(n - 1) PROVE h[k] = (v[k - 1] + h[k - 1]) \div b
    <2> DEFINE p == <<k, h[k - 1]>>
    <2>1. k - 1 \in 0..(n - 1) /\ h[k - 1] \in Nat
      BY <1>3
    <2>2. p \in Nat \X Nat /\ p[1] = k /\ p[2] = h[k - 1]
      BY <2>1
    <2>3. h[k] = step[p]
      BY <1>3
    <2> HIDE DEF p
    <2>4. step[p] = (v[p[1] - 1] + p[2]) \div b
      BY <2>2
    <2> HIDE DEF step
    <2> QED BY <2>2, <2>3, <2>4
  <1>5. IsCarry(h)
    <2>1. h = [k \in 0..(n - 1) |-> h[k]]
      BY <1>3
    <2>2. \A k \in 0..(n - 1) : h[k] = IF k = 0 THEN 0 ELSE (v[k - 1] + h[k - 1]) \div b
      BY <1>3, <1>4
    <2> QED BY <2>1, <2>2
  <1>6. IsCarry(c)
    BY <1>5
  <1>7. Carried(v, b) = [i \in 0..(n - 1) |-> IF i + 1 \in 0..(n - 1) THEN (v[i] + c[i]) % b ELSE v[i] + c[i]]
    BY DEF Carried
  <1> HIDE DEF c
  <1>8. c[0] = 0 /\ \A k \in 1..(n - 1) : c[k] = (v[k - 1] + c[k - 1]) \div b
    BY <1>6
  <1>9. \A k \in 0..(n - 1) : c[k] \in Nat
    <2>1. \A k \in 1..(n - 1) : c[k - 1] \in Nat => c[k] \in Nat
      BY <1>0, <1>8
    <2>2. c[0] \in Nat /\ n - 1 \in Nat
      BY <1>8
    <2> QED BY <2>1, <2>2, Stays
  <1> QED BY <1>7, <1>8, <1>9 DEF Carry, CarriedBy

(* Carried limbs stand for the same number, and all but the top are cut.   *)
LEMMA CarriedIs ==
  ASSUME NEW bits \in Nat, NEW n \in Nat, NEW v, DOMAIN v = 0..n, \A k \in 0..n : v[k] \in Nat
  PROVE  /\ DOMAIN Carried(v, Power[bits]) = 0..n
         /\ \A k \in 0..n : Carried(v, Power[bits])[k] \in Nat
         /\ \A k \in 0..(n - 1) : Carried(v, Power[bits])[k] \in 0..(Power[bits] - 1)
         /\ ValueOf(Carried(v, Power[bits]), n, bits) = ValueOf(v, n, bits) % Power[bits * n]
         /\ ValueOf(Carried(v, Power[bits]), n + 1, bits) = ValueOf(v, n + 1, bits)
  <1> DEFINE b == Power[bits]
             r == Carried(v, b)
  <1>0. b \in Nat \ {0}
    BY PowerIn
  <1>1. PICK c : /\ Carry(c, v, n + 1, b)
                 /\ r = [i \in 0..n |-> IF i + 1 \in 0..n THEN (v[i] + c[i]) % b ELSE v[i] + c[i]]
    <2> DEFINE l == n + 1
    <2>1. l \in Nat \ {0} /\ l - 1 = n
      OBVIOUS
    <2> HIDE DEF b, l
    <2>2. DOMAIN v = 0..(l - 1) /\ \A k \in 0..(l - 1) : v[k] \in Nat
      BY <2>1
    <2>3. \E c : /\ Carry(c, v, l, b)
                 /\ Carried(v, b) = CarriedBy(c, v, l, b)
      BY <1>0, <2>1, <2>2, CarryExists
    <2> QED BY <2>1, <2>3 DEF l, CarriedBy
  <1>2. c[0] = 0 /\ (\A k \in 0..n : c[k] \in Nat) /\ \A k \in 1..n : c[k] = (v[k - 1] + c[k - 1]) \div b
    BY <1>1 DEF Carry
  <1>3. ASSUME NEW k \in 0..(n - 1)
        PROVE  /\ v[k] + c[k] = b * c[k + 1] + r[k] /\ r[k] \in 0..(b - 1) /\ r[k] \in Nat
               /\ c[k] \in Nat /\ c[k + 1] \in Nat /\ v[k] \in Nat
    <2>1. k + 1 \in 0..n /\ k + 1 \in 1..n /\ k \in 0..n /\ (k + 1) - 1 = k
      OBVIOUS
    <2>2. r[k] = (v[k] + c[k]) % b /\ c[k + 1] = (v[k] + c[k]) \div b
      BY <1>1, <1>2, <2>1
    <2>3. v[k] + c[k] \in Nat /\ c[k] \in Nat /\ c[k + 1] \in Nat /\ v[k] \in Nat
      BY <1>2, <2>1
    <2> HIDE DEF b, r
    <2>4. v[k] + c[k] = b * ((v[k] + c[k]) \div b) + ((v[k] + c[k]) % b) /\ (v[k] + c[k]) % b \in 0..(b - 1)
      BY <1>0, <2>3, DivMod
    <2> QED BY <1>0, <2>2, <2>3, <2>4
  <1>4. r[n] = v[n] + c[n] /\ r[n] \in Nat /\ c[n] \in Nat /\ v[n] \in Nat
    <2>1. n \in 0..n /\ ~ (n + 1 \in 0..n)
      OBVIOUS
    <2> QED BY <1>1, <1>2, <2>1
  <1>5. DOMAIN r = 0..n
    BY <1>1
  <1> HIDE DEF r
  <1>6. \A k \in 0..n : r[k] \in Nat
    <2> SUFFICES ASSUME NEW k \in 0..n PROVE r[k] \in Nat
      OBVIOUS
    <2>1. k = n \/ k \in 0..(n - 1)
      OBVIOUS
    <2> QED BY <1>3, <1>4, <2>1
  <1> DEFINE Holds(l) == ValueOf(v, l, bits) = ValueOf(r, l, bits) + Power[bits * l] * c[l]
             T == {l \in Nat : l <= n => Holds(l)}
  <1>7. 0 \in T
    <2>1. Power[bits * 0] = 1 /\ ValueOf(v, 0, bits) = 0 /\ ValueOf(r, 0, bits) = 0
      BY PlaceIs, ValueZero
    <2> QED BY <1>2, <2>1
  <1>8. ASSUME NEW l \in Nat, l \in T PROVE l + 1 \in T
    <2> SUFFICES ASSUME l + 1 <= n PROVE Holds(l + 1)
      OBVIOUS
    <2> DEFINE p == Power[bits * l]
               x == ValueOf(r, l, bits)
               y == v[l]
               z == r[l]
               d == c[l]
               e == c[l + 1]
    <2>1. l \in 0..(n - 1)
      OBVIOUS
    <2>2. ValueOf(v, l, bits) = x + p * d
      BY <1>8
    <2>3. y + d = b * e + z /\ y \in Nat /\ z \in Nat /\ d \in Nat /\ e \in Nat
      BY <1>3, <2>1
    <2>4. ValueOf(v, l + 1, bits) = ValueOf(v, l, bits) + y * p
      <3>1. \A k \in 0..l : v[k] \in Int
        OBVIOUS
      <3> QED BY <3>1, ValueNext
    <2>5. x \in Int /\ ValueOf(r, l + 1, bits) = x + z * p
      <3>1. \A k \in 0..l : r[k] \in Int
        BY <1>6
      <3> QED BY <3>1, ValueNext
    <2>6. p \in Nat /\ Power[bits * (l + 1)] = p * b
      BY PlaceIs
    <2> HIDE DEF b, p, x, y, z, d, e
    <2>7. x + p * d + y * p = x + p * (y + d)
      BY <2>3, <2>5, <2>6
    <2>8. p * (b * e + z) = (p * b) * e + z * p
      BY <1>0, <2>3, <2>6
    <2>9. ValueOf(v, l + 1, bits) = (x + z * p) + (p * b) * e
      <3>1. (p * b) * e \in Int /\ z * p \in Int /\ p * d \in Int /\ y * p \in Int
        <4>1. p * b \in Int
          BY <1>0, <2>6
        <4> QED BY <2>3, <2>6, <4>1
      <3>2. p * (y + d) = (p * b) * e + z * p
        BY <2>3, <2>8
      <3> QED BY <2>2, <2>4, <2>5, <2>7, <3>1, <3>2
    <2> QED BY <2>5, <2>6, <2>9 DEF e
  <1> HIDE DEF T
  <1>9. Nat \subseteq T
    BY <1>7, <1>8, NatInSet
  <1>10. Holds(n)
    BY <1>9 DEF T
  <1>11. ValueOf(r, n, bits) = ValueOf(v, n, bits) % Power[bits * n]
    <2> DEFINE p == Power[bits * n]
               x == ValueOf(r, n, bits)
               y == ValueOf(v, n, bits)
               d == c[n]
    <2>1. x \in 0..(p - 1)
      <3>1. \A k \in 0..(n - 1) : r[k] \in 0..(Power[bits] - 1)
        BY <1>3
      <3> QED BY <3>1, ValueBelow
    <2>2. y \in Nat
      <3>1. \A k \in 0..(n - 1) : v[k] \in Nat
        OBVIOUS
      <3> QED BY <3>1, ValueIsNat
    <2>3. p \in Nat \ {0} /\ d \in Nat /\ y = p * d + x
      <3>1. p \in Nat \ {0} /\ d \in Nat
        BY <1>4, PlaceIs
      <3>2. p * d \in Nat
        <4> HIDE DEF p, d
        <4> QED BY <3>1
      <3> QED BY <1>10, <2>1, <3>1, <3>2
    <2> HIDE DEF p, x, y, d
    <2>4. y % p = x
      BY <2>1, <2>2, <2>3, DivModIs
    <2> QED BY <2>4 DEF p, x, y
  <1>12. ValueOf(r, n + 1, bits) = ValueOf(v, n + 1, bits)
    <2> DEFINE p == Power[bits * n]
               x == ValueOf(r, n, bits)
               y == v[n]
               d == c[n]
    <2>1. x \in Int /\ ValueOf(r, n + 1, bits) = x + r[n] * p
      <3>1. \A k \in 0..n : r[k] \in Int
        BY <1>6
      <3> QED BY <3>1, ValueNext
    <2>2. ValueOf(v, n + 1, bits) = ValueOf(v, n, bits) + y * p
      <3>1. \A k \in 0..n : v[k] \in Int
        OBVIOUS
      <3> QED BY <3>1, ValueNext
    <2>3. p \in Nat /\ y \in Nat /\ d \in Nat /\ r[n] = y + d
      BY <1>4, PlaceIs
    <2>4. ValueOf(v, n, bits) = x + p * d
      BY <1>10
    <2> HIDE DEF p, x, y, d
    <2>5. (y + d) * p = y * p + p * d /\ y * p \in Int /\ p * d \in Int
      BY <2>3
    <2> QED BY <2>1, <2>2, <2>3, <2>4, <2>5
  <1>13. \A k \in 0..(n - 1) : r[k] \in 0..(b - 1)
    BY <1>3
  <1> QED BY <1>5, <1>6, <1>11, <1>12, <1>13 DEF r

Borrow(c, x, y, n) ==
  c[0] = 0 /\ (\A k \in 0..n : c[k] \in {0, 1})
    /\ \A k \in 1..n : c[k] = IF x[k - 1] < y[k - 1] + c[k - 1] THEN 1 ELSE 0

BorrowedBy(c, x, y, n, b) ==
  [limbs |-> [i \in 0..(n - 1) |-> x[i] - (y[i] + c[i]) + b * c[i + 1]], borrow |-> c[n]]

LEMMA BorrowExists ==
  ASSUME NEW n \in Nat, NEW x, NEW y, NEW b
  PROVE  \E c : Borrow(c, x, y, n) /\ Borrowed(x, y, n, b) = BorrowedBy(c, x, y, n, b)
  <1> DEFINE S == {0, 1}
             step == [p \in Nat \X S |-> IF x[p[1] - 1] < y[p[1] - 1] + p[2] THEN 1 ELSE 0]
             IsBorrow(g) == g = [i \in 0..n |-> IF i = 0 THEN 0 ELSE IF x[i - 1] < y[i - 1] + g[i - 1] THEN 1 ELSE 0]
             c == CHOOSE g : IsBorrow(g)
  <1>1. step \in [Nat \X S -> S]
    OBVIOUS
  <1>2. PICK h : Steps(h, S, n, 0, step)
    <2>1. 0 \in S
      OBVIOUS
    <2> HIDE DEF step, S
    <2>2. \E h : Steps(h, S, n, 0, step)
      BY <1>1, <2>1, StepsExist
    <2> QED BY <2>2
  <1>3. h \in [0..n -> S] /\ h[0] = 0 /\ \A k \in 1..n : h[k] = step[<<k, h[k - 1]>>]
    BY <1>2 DEF Steps
  <1>4. ASSUME NEW k \in 1..n PROVE h[k] = IF x[k - 1] < y[k - 1] + h[k - 1] THEN 1 ELSE 0
    <2> DEFINE p == <<k, h[k - 1]>>
    <2>1. k - 1 \in 0..n /\ h[k - 1] \in S
      BY <1>3
    <2>2. p \in Nat \X S /\ p[1] = k /\ p[2] = h[k - 1]
      BY <2>1
    <2>3. h[k] = step[p]
      BY <1>3
    <2> HIDE DEF p, S
    <2>4. step[p] = IF x[p[1] - 1] < y[p[1] - 1] + p[2] THEN 1 ELSE 0
      BY <2>2
    <2> HIDE DEF step
    <2> QED BY <2>2, <2>3, <2>4
  <1>5. IsBorrow(h)
    <2>1. h = [k \in 0..n |-> h[k]]
      BY <1>3
    <2>2. \A k \in 0..n : h[k] = IF k = 0 THEN 0 ELSE IF x[k - 1] < y[k - 1] + h[k - 1] THEN 1 ELSE 0
      BY <1>3, <1>4
    <2> QED BY <2>1, <2>2
  <1>6. IsBorrow(c)
    BY <1>5
  <1>7. Borrowed(x, y, n, b) = BorrowedBy(c, x, y, n, b)
    BY DEF Borrowed, BorrowedBy
  <1> HIDE DEF c
  <1>8. c[0] = 0 /\ \A k \in 1..n : c[k] = IF x[k - 1] < y[k - 1] + c[k - 1] THEN 1 ELSE 0
    BY <1>6
  <1>9. \A k \in 0..n : c[k] \in {0, 1}
    <2> SUFFICES ASSUME NEW k \in 0..n PROVE c[k] \in {0, 1}
      OBVIOUS
    <2>1. k = 0 \/ k \in 1..n
      OBVIOUS
    <2> QED BY <1>8, <2>1
  <1> QED BY <1>7, <1>8, <1>9 DEF Borrow

(* The difference, or what it is with the borrow from above the top.       *)
LEMMA BorrowedIs ==
  ASSUME NEW bits \in Nat, NEW n \in Nat, NEW x, NEW y,
         \A k \in 0..(n - 1) : x[k] \in 0..(Power[bits] - 1) /\ y[k] \in 0..(Power[bits] - 1)
  PROVE  LET t == Borrowed(x, y, n, Power[bits])
         IN /\ t.limbs \in Cut(n, bits)
            /\ t.borrow = IF ValueOf(x, n, bits) < ValueOf(y, n, bits) THEN 1 ELSE 0
            /\ ValueOf(t.limbs, n, bits) =
                 ValueOf(x, n, bits) - ValueOf(y, n, bits)
                   + IF ValueOf(x, n, bits) < ValueOf(y, n, bits) THEN Power[bits * n] ELSE 0
  <1> DEFINE b == Power[bits]
             t == Borrowed(x, y, n, b)
             r == t.limbs
  <1>0. b \in Nat \ {0}
    BY PowerIn
  <1>1. PICK c : Borrow(c, x, y, n) /\ t = BorrowedBy(c, x, y, n, b)
    <2>1. t = Borrowed(x, y, n, b)
      OBVIOUS
    <2> HIDE DEF t, b
    <2>2. \E c : Borrow(c, x, y, n) /\ t = BorrowedBy(c, x, y, n, b)
      BY <2>1, BorrowExists
    <2> QED BY <2>2
  <1>2. c[0] = 0 /\ \A k \in 0..n : c[k] \in {0, 1}
    BY <1>1 DEF Borrow
  <1>3. t.borrow = c[n] /\ r = [i \in 0..(n - 1) |-> x[i] - (y[i] + c[i]) + b * c[i + 1]]
    BY <1>1 DEF BorrowedBy
  <1> HIDE DEF t, r
  <1>4. ASSUME NEW k \in 0..(n - 1)
        PROVE  /\ r[k] = x[k] - (y[k] + c[k]) + b * c[k + 1] /\ r[k] \in 0..(b - 1)
               /\ x[k] \in 0..(b - 1) /\ y[k] \in 0..(b - 1) /\ c[k] \in {0, 1} /\ c[k + 1] \in {0, 1}
    <2>1. k \in 0..n /\ k + 1 \in 0..n /\ k + 1 \in 1..n /\ (k + 1) - 1 = k
      OBVIOUS
    <2>2. c[k + 1] = IF x[k] < y[k] + c[k] THEN 1 ELSE 0
      BY <1>1, <2>1 DEF Borrow
    <2>3. c[k] \in {0, 1} /\ c[k + 1] \in {0, 1}
      BY <1>2, <2>1
    <2>4. x[k] \in 0..(b - 1) /\ y[k] \in 0..(b - 1)
      OBVIOUS
    <2>5. r[k] = x[k] - (y[k] + c[k]) + b * c[k + 1]
      BY <1>3
    <2> HIDE DEF b
    <2>6. b * 1 = b /\ b * 0 = 0
      BY <1>0
    <2> QED BY <1>0, <2>2, <2>3, <2>4, <2>5, <2>6
  <1>5. r \in Cut(n, bits)
    <2>1. \A k \in 0..(n - 1) : r[k] \in 0..(Power[bits] - 1)
      BY <1>4
    <2>2. r = [i \in 0..(n - 1) |-> r[i]]
      BY <1>3
    <2> QED BY <2>1, <2>2 DEF Cut
  <1> DEFINE Holds(l) == ValueOf(r, l, bits) = ValueOf(x, l, bits) - ValueOf(y, l, bits) + Power[bits * l] * c[l]
             T == {l \in Nat : l <= n => Holds(l)}
  <1>6. 0 \in T
    <2>1. Power[bits * 0] = 1 /\ ValueOf(x, 0, bits) = 0 /\ ValueOf(r, 0, bits) = 0 /\ ValueOf(y, 0, bits) = 0
      BY PlaceIs, ValueZero
    <2> QED BY <1>2, <2>1
  <1>7. ASSUME NEW l \in Nat, l \in T PROVE l + 1 \in T
    <2> SUFFICES ASSUME l + 1 <= n PROVE Holds(l + 1)
      OBVIOUS
    <2> DEFINE p == Power[bits * l]
               u == x[l]
               v == y[l]
               d == c[l]
               e == c[l + 1]
    <2>1. l \in 0..(n - 1) /\ \A k \in 0..l : k \in 0..(n - 1)
      OBVIOUS
    <2>2. \A k \in 0..l : x[k] \in Int /\ y[k] \in Int /\ r[k] \in Int
      BY <1>0, <1>4, <2>1
    <2>3. ValueOf(x, l, bits) \in Int /\ ValueOf(x, l + 1, bits) = ValueOf(x, l, bits) + u * p
      BY <2>2, ValueNext
    <2>4. ValueOf(y, l, bits) \in Int /\ ValueOf(y, l + 1, bits) = ValueOf(y, l, bits) + v * p
      BY <2>2, ValueNext
    <2>5. ValueOf(r, l + 1, bits) = ValueOf(r, l, bits) + r[l] * p
      BY <2>2, ValueNext
    <2>6. r[l] = u - (v + d) + b * e /\ u \in Int /\ v \in Int /\ d \in Int /\ e \in Int
      BY <1>0, <1>4, <2>1, <2>2
    <2>7. p \in Nat /\ Power[bits * (l + 1)] = p * b
      BY PlaceIs
    <2>8. ValueOf(r, l, bits) = ValueOf(x, l, bits) - ValueOf(y, l, bits) + p * d
      BY <1>7
    <2> HIDE DEF b, p, u, v, d, e
    <2>9. (u - (v + d) + b * e) * p = u * p - v * p - p * d + (p * b) * e
      BY <1>0, <2>6, <2>7
    <2>10. u * p \in Int /\ v * p \in Int /\ p * d \in Int /\ (p * b) * e \in Int
      <3>1. p * b \in Int
        BY <1>0, <2>7
      <3> QED BY <2>6, <2>7, <3>1
    <2>11. ValueOf(r, l + 1, bits) = ValueOf(x, l + 1, bits) - ValueOf(y, l + 1, bits) + (p * b) * e
      BY <2>3, <2>4, <2>5, <2>6, <2>8, <2>9, <2>10
    <2> QED BY <2>7, <2>11 DEF e
  <1> HIDE DEF T
  <1>8. Nat \subseteq T
    BY <1>6, <1>7, NatInSet
  <1>9. Holds(n)
    BY <1>8 DEF T
  <1> DEFINE p == Power[bits * n]
             X == ValueOf(x, n, bits)
             Y == ValueOf(y, n, bits)
             R == ValueOf(r, n, bits)
  <1>10. p \in Nat \ {0} /\ c[n] \in {0, 1} /\ R = X - Y + p * c[n]
    BY <1>2, <1>9, PlaceIs
  <1>11. X \in 0..(p - 1) /\ Y \in 0..(p - 1) /\ R \in 0..(p - 1)
    <2>1. \A k \in 0..(n - 1) : x[k] \in 0..(Power[bits] - 1)
      OBVIOUS
    <2>2. \A k \in 0..(n - 1) : y[k] \in 0..(Power[bits] - 1)
      OBVIOUS
    <2>3. \A k \in 0..(n - 1) : r[k] \in 0..(Power[bits] - 1)
      BY <1>4
    <2> QED BY <2>1, <2>2, <2>3, ValueBelow
  <1> HIDE DEF p, X, Y, R
  <1>12. p * 0 = 0 /\ p * 1 = p
    BY <1>10
  <1>13. c[n] = (IF X < Y THEN 1 ELSE 0) /\ R = X - Y + (IF X < Y THEN p ELSE 0)
    BY <1>10, <1>11, <1>12
  <1> QED BY <1>3, <1>5, <1>13 DEF t, r, p, X, Y, R

-----------------------------------------------------------------------------
(* Orders of products and sums.                                            *)
LEMMA TimesKeeps ==
  ASSUME NEW a \in Nat, NEW x \in Nat, NEW y \in Nat, x <= y
  PROVE  a * x <= a * y
  <1>1. PICK d \in Nat : y = x + d
    <2>1. y - x \in Nat /\ y = x + (y - x)
      OBVIOUS
    <2> QED BY <2>1
  <1>2. a * y = a * x + a * d /\ a * d \in Nat /\ a * x \in Nat
    BY <1>1
  <1> QED BY <1>2

LEMMA TimesOrders ==
  ASSUME NEW a \in Nat \ {0}, NEW x \in Nat, NEW y \in Nat, a * x <= a * y
  PROVE  x <= y
  <1> SUFFICES ASSUME y < x PROVE FALSE
    OBVIOUS
  <1>1. a * y + a <= a * x
    BY NextMultiple
  <1>2. a * y \in Nat /\ a * x \in Nat
    OBVIOUS
  <1> QED BY <1>1, <1>2

LEMMA ValueGrows ==
  ASSUME NEW bits \in Nat, NEW n \in Nat, NEW u, NEW v, \A k \in 0..(n - 1) : u[k] \in Nat /\ v[k] \in Nat /\ u[k] <= v[k]
  PROVE  ValueOf(u, n, bits) <= ValueOf(v, n, bits)
  <1> DEFINE T == {l \in Nat : l <= n => ValueOf(u, l, bits) <= ValueOf(v, l, bits)}
  <1>1. 0 \in T
    BY ValueZero
  <1>2. ASSUME NEW l \in Nat, l \in T PROVE l + 1 \in T
    <2> SUFFICES ASSUME l + 1 <= n PROVE ValueOf(u, l + 1, bits) <= ValueOf(v, l + 1, bits)
      OBVIOUS
    <2> DEFINE p == Power[bits * l]
               y == u[l]
               z == v[l]
    <2>1. ValueOf(u, l, bits) <= ValueOf(v, l, bits) /\ y \in Nat /\ z \in Nat /\ y <= z
      BY <1>2
    <2>2. \A k \in 0..l : u[k] \in Int /\ v[k] \in Int
      <3>1. \A k \in 0..l : k \in 0..(n - 1)
        OBVIOUS
      <3> QED BY <3>1
    <2>3. ValueOf(u, l, bits) \in Int /\ ValueOf(u, l + 1, bits) = ValueOf(u, l, bits) + y * p
      BY <2>2, ValueNext
    <2>4. ValueOf(v, l, bits) \in Int /\ ValueOf(v, l + 1, bits) = ValueOf(v, l, bits) + z * p
      BY <2>2, ValueNext
    <2>5. p \in Nat
      BY PlaceIs
    <2> HIDE DEF p, y, z
    <2>6. p * y <= p * z /\ p * y \in Nat /\ p * z \in Nat /\ p * y = y * p /\ p * z = z * p
      BY <2>1, <2>5, TimesKeeps
    <2> QED BY <2>1, <2>3, <2>4, <2>6
  <1> HIDE DEF T
  <1>3. Nat \subseteq T
    BY <1>1, <1>2, NatInSet
  <1> QED BY <1>3 DEF T

LEMMA TotalGrows ==
  ASSUME NEW n \in Nat, NEW f, NEW g, \A k \in 0..(n - 1) : f[k] \in Nat /\ g[k] \in Nat /\ f[k] <= g[k]
  PROVE  Total(f, n) \in Nat /\ Total(f, n) <= Total(g, n)
  <1> DEFINE T == {l \in Nat : l <= n => Total(f, l) \in Nat /\ Total(f, l) <= Total(g, l)}
  <1>1. 0 \in T
    BY TotalZero
  <1>2. ASSUME NEW l \in Nat, l \in T PROVE l + 1 \in T
    <2> SUFFICES ASSUME l + 1 <= n PROVE Total(f, l + 1) \in Nat /\ Total(f, l + 1) <= Total(g, l + 1)
      OBVIOUS
    <2>1. Total(f, l) \in Nat /\ Total(f, l) <= Total(g, l) /\ f[l] \in Nat /\ g[l] \in Nat /\ f[l] <= g[l]
      BY <1>2
    <2>2. \A k \in 0..l : f[k] \in Int /\ g[k] \in Int
      <3>1. \A k \in 0..l : k \in 0..(n - 1)
        OBVIOUS
      <3> QED BY <3>1
    <2>3. Total(f, l) \in Int /\ Total(f, l + 1) = Total(f, l) + f[l]
      BY <2>2, TotalNext
    <2>4. Total(g, l) \in Int /\ Total(g, l + 1) = Total(g, l) + g[l]
      BY <2>2, TotalNext
    <2> QED BY <2>1, <2>3, <2>4
  <1> HIDE DEF T
  <1>3. Nat \subseteq T
    BY <1>1, <1>2, NatInSet
  <1> QED BY <1>3 DEF T

Numbers(x, n) == DOMAIN x = 0..(n - 1) /\ \A k \in 0..(n - 1) : x[k] \in Nat

LEMMA ColumnGrows ==
  ASSUME NEW a \in Nat, NEW x, Numbers(x, a), NEW b \in Nat, NEW y, Numbers(y, b), NEW z, Numbers(z, b),
         \A k \in 0..(b - 1) : y[k] <= z[k], NEW k \in Nat
  PROVE  Column(x, y, k) \in Nat /\ Column(x, y, k) <= Column(x, z, k)
  <1> DEFINE f == [i \in 0..k |-> Limb(x, i) * Limb(y, k - i)]
             g == [i \in 0..k |-> Limb(x, i) * Limb(z, k - i)]
  <1>1. \A i \in 0..((k + 1) - 1) : f[i] \in Nat /\ g[i] \in Nat /\ f[i] <= g[i]
    <2> SUFFICES ASSUME NEW i \in 0..k PROVE f[i] \in Nat /\ g[i] \in Nat /\ f[i] <= g[i]
      OBVIOUS
    <2> DEFINE c == Limb(x, i)
               d == Limb(y, k - i)
               e == Limb(z, k - i)
    <2>1. c \in Nat /\ d \in Nat /\ e \in Nat /\ d <= e
      BY DEF Numbers, Limb
    <2>2. f[i] = c * d /\ g[i] = c * e
      OBVIOUS
    <2> HIDE DEF c, d, e, f, g
    <2> QED BY <2>1, <2>2, TimesKeeps
  <1>2. Column(x, y, k) = Total(f, k + 1) /\ Column(x, z, k) = Total(g, k + 1)
    BY DEF Column
  <1> HIDE DEF f, g
  <1> QED BY <1>1, <1>2, TotalGrows

LEMMA ColumnIsNat ==
  ASSUME NEW a \in Nat, NEW x, Numbers(x, a), NEW b \in Nat, NEW y, Numbers(y, b), NEW k \in Nat
  PROVE  Column(x, y, k) \in Nat
  <1>1. \A i \in 0..(b - 1) : y[i] <= y[i]
    BY DEF Numbers
  <1> QED BY <1>1, ColumnGrows

LEMMA FilledValue ==
  ASSUME NEW bits \in Nat, NEW a \in Nat, NEW x, Numbers(x, a), NEW n \in Nat, n >= a
  PROVE  ValueOf(Filled(x), n, bits) = ValueOf(x, a, bits)
  <1> DEFINE X == Filled(x)
             r == n - a
             u == Upper(X, a, r)
  <1>1. \A k \in Nat : X[k] = (IF k < a THEN x[k] ELSE 0) /\ X[k] \in Nat
    BY DEF Filled, Limb, Numbers
  <1>2. r \in Nat /\ a + r = n
    OBVIOUS
  <1> HIDE DEF X, r
  <1>3. \A k \in 0..(a + r - 1) : X[k] \in Int
    BY <1>1, <1>2
  <1>4. ValueOf(X, a + r, bits) = ValueOf(X, a, bits) + Power[bits * a] * ValueOf(u, r, bits)
    <2>1. ValueOf(X, a + r, bits) = ValueOf(X, a, bits) + Power[bits * a] * ValueOf(Upper(X, a, r), r, bits)
      BY <1>2, <1>3, ValueSplit
    <2> QED BY <2>1
  <1>5. \A k \in 0..(r - 1) : u[k] = 0
    <2> SUFFICES ASSUME NEW k \in 0..(r - 1) PROVE u[k] = 0
      OBVIOUS
    <2>1. a + k \in Nat /\ ~ (a + k < a) /\ u[k] = X[a + k]
      BY DEF Upper
    <2> QED BY <1>1, <2>1
  <1>6. ValueOf(u, r, bits) = 0
    <2> HIDE DEF u
    <2> QED BY <1>2, <1>5, ValueNone
  <1>7. ValueOf(X, a, bits) = ValueOf(x, a, bits)
    <2>1. \A k \in 0..(a - 1) : X[k] \in Int /\ X[k] = x[k]
      BY <1>1
    <2> QED BY <2>1, ValueSame
  <1>8. Power[bits * a] \in Nat /\ ValueOf(X, a, bits) \in Int
    <2>1. \A k \in 0..a : X[k] \in Int
      BY <1>1
    <2> QED BY <2>1, PlaceIs, ValueNext
  <1> HIDE DEF u
  <1>9. Power[bits * a] * 0 = 0
    BY <1>8
  <1>10. ValueOf(X, n, bits) = ValueOf(x, a, bits)
    BY <1>2, <1>4, <1>6, <1>7, <1>8, <1>9
  <1> QED BY <1>10 DEF X

(* All places of a product stand for it, and the n lowest of them for it   *)
(* up to multiples of what is above them.                                  *)
LEMMA ProductValue ==
  ASSUME NEW bits \in Nat, NEW a \in Nat, NEW x, Numbers(x, a), NEW b \in Nat, NEW y, Numbers(y, b)
  PROVE  /\ \A n \in Nat : n >= a + b => ValueOf(Columns(x, y), n, bits) = ValueOf(x, a, bits) * ValueOf(y, b, bits)
         /\ \A n \in Nat : ValueOf(Columns(x, y), n, bits) \in Nat
         /\ \A k \in Nat : Columns(x, y)[k] = Column(x, y, k) /\ Column(x, y, k) \in Nat
  <1>1. \A k \in Nat : Columns(x, y)[k] = Column(x, y, k) /\ Column(x, y, k) \in Nat
    BY ColumnIsNat DEF Columns
  <1>2. ASSUME NEW n \in Nat PROVE ValueOf(Columns(x, y), n, bits) \in Nat
    <2>1. \A k \in 0..(n - 1) : Columns(x, y)[k] \in Nat
      BY <1>1
    <2> QED BY <2>1, ValueIsNat
  <1>3. ASSUME NEW n \in Nat, n >= a + b
        PROVE  ValueOf(Columns(x, y), n, bits) = ValueOf(x, a, bits) * ValueOf(y, b, bits)
    <2>1. DOMAIN x = 0..(a - 1) /\ (\A k \in 0..(a - 1) : x[k] \in Int)
          /\ DOMAIN y = 0..(b - 1) /\ (\A k \in 0..(b - 1) : y[k] \in Int)
      BY DEF Numbers
    <2>2. ValueOf(Columns(x, y), n, bits) = ValueOf(Filled(x), n, bits) * ValueOf(Filled(y), n, bits)
      BY <1>3, <2>1, ProductIs
    <2>3. n >= a /\ n >= b
      BY <1>3
    <2>4. ValueOf(Filled(x), n, bits) = ValueOf(x, a, bits) /\ ValueOf(Filled(y), n, bits) = ValueOf(y, b, bits)
      BY <2>3, FilledValue
    <2> QED BY <2>2, <2>4
  <1> QED BY <1>1, <1>2, <1>3

-----------------------------------------------------------------------------
(* Barrett's quotient.                                                     *)
LEMMA QuotientIs ==
  ASSUME NEW M \in Nat \ {0}, NEW top \in Nat \ {0}, NEW W \in Nat \ {0}, NEW MU \in Nat, NEW R \in Nat,
         W * top = M * MU + R,
         NEW l \in 0..(W - 1), NEW h \in 0..(top - 1), NEW Q \in Nat, NEW D \in Nat, NEW lost \in Nat, D <= lost,
         top * Q <= MU * h, MU * h < D + top * Q + top,
         (W - 1) * top + R * (top - 1) + M * lost <= 2 * M * top
  PROVE  M * Q <= l + W * h /\ l + W * h < M * Q + 3 * M
  <1> DEFINE x == l + W * h
  <1>1. x \in Nat /\ W * h \in Nat /\ M * Q \in Nat /\ MU * h \in Nat /\ top * Q \in Nat
    OBVIOUS
  <1>2. top * (W * h) = M * (MU * h) + R * h /\ R * h \in Nat
    <2>1. top * (W * h) = (W * top) * h
      OBVIOUS
    <2>2. (M * MU + R) * h = M * (MU * h) + R * h
      OBVIOUS
    <2> QED BY <2>1, <2>2
  <1>3. M * (top * Q) <= M * (MU * h) /\ M * (top * Q) = top * (M * Q)
    <2>1. M * (top * Q) = top * (M * Q)
      OBVIOUS
    <2> QED BY <1>1, <2>1, TimesKeeps
  <1>4. top * (M * Q) <= top * (W * h)
    <2>1. M * (MU * h) \in Nat /\ top * (M * Q) \in Nat
      BY <1>1
    <2> QED BY <1>2, <1>3, <2>1
  <1>5. M * Q <= W * h
    BY <1>1, <1>4, TimesOrders
  <1>6. M * Q <= x
    BY <1>1, <1>5
  <1>7. ASSUME M * Q + 3 * M <= x PROVE FALSE
    <2>1. top * (M * Q + 3 * M) <= top * x
      BY <1>1, <1>7, TimesKeeps
    <2>2. top * (M * Q + 3 * M) = top * (M * Q) + 3 * (M * top) /\ M * top \in Nat
      OBVIOUS
    <2>3. top * x = top * l + top * (W * h) /\ top * l \in Nat
      OBVIOUS
    <2>4. MU * h + 1 <= D + top * Q + top /\ D + top * Q + top \in Nat
      BY <1>1
    <2>5. M * (MU * h + 1) <= M * (D + top * Q + top)
      BY <1>1, <2>4, TimesKeeps
    <2>6. M * (MU * h + 1) = M * (MU * h) + M /\ M * (MU * h) \in Nat
      BY <1>1
    <2>7. M * (D + top * Q + top) = M * D + M * (top * Q) + M * top /\ M * D \in Nat /\ M * (top * Q) \in Nat
      BY <1>1
    <2>8. M * D <= M * lost /\ M * lost \in Nat
      BY TimesKeeps
    <2>9. top * l <= top * (W - 1) /\ top * (W - 1) = (W - 1) * top
      <3>1. W - 1 \in Nat /\ l \in Nat /\ l <= W - 1
        OBVIOUS
      <3> QED BY <3>1, TimesKeeps
    <2>10. R * h <= R * (top - 1)
      <3>1. top - 1 \in Nat /\ h \in Nat /\ h <= top - 1
        OBVIOUS
      <3> QED BY <3>1, TimesKeeps
    <2>11. (W - 1) * top \in Int /\ R * (top - 1) \in Int /\ 2 * M * top = 2 * (M * top)
      OBVIOUS
    <2> HIDE DEF x
    <2>12. top * (M * Q) + 3 * (M * top) <= top * l + top * (W * h)
      BY <2>1, <2>2, <2>3
    <2>13. M * (MU * h) + M <= M * D + M * (top * Q) + M * top
      BY <2>5, <2>6, <2>7
    <2> DEFINE A == top * (M * Q)
               B == M * top
               Cols == top * l
               E == M * (MU * h)
               F == R * h
               G == M * D
               H == M * lost
               I == (W - 1) * top
               J == R * (top - 1)
    <2>14. /\ A + 3 * B <= Cols + (E + F) /\ E + M <= G + A + B /\ G <= H /\ Cols <= I /\ F <= J /\ I + J + H <= 2 * B
      BY <1>2, <1>3, <2>8, <2>9, <2>10, <2>11, <2>12, <2>13
    <2>15. A \in Int /\ B \in Int /\ Cols \in Int /\ E \in Int /\ F \in Int /\ G \in Int /\ H \in Int /\ I \in Int /\ J \in Int
      BY <1>1, <1>2, <2>2, <2>3, <2>6, <2>7, <2>8, <2>11
    <2> HIDE DEF A, B, Cols, E, F, G, H, I, J
    <2> QED BY <2>14, <2>15
  <1> QED BY <1>1, <1>6, <1>7

-----------------------------------------------------------------------------
(* The order and its limbs.                                                *)
Whole(n) == Power[ScalarBits * n]
ScalarLimbs(x) == LimbsOf(x, K, ScalarBits)
ScalarValue(v) == ValueOf(v, K, ScalarBits)

LEMMA SizesAre ==
  /\ ScalarBits \in Nat \ {0, 1} /\ K \in Nat \ {0, 1} /\ m \in Nat \ {0}
  /\ ScBase \in Nat \ {0, 1, 2, 3} /\ ScBase = Power[ScalarBits]
  /\ Whole(K - 1) < m /\ 3 * m < Whole(K)
  /\ \A n \in Nat : Whole(n) \in Nat \ {0}
  /\ \A n \in Nat, l \in Nat : Whole(n + l) = Whole(n) * Whole(l)
  <1>1. ScalarBits \in Nat \ {0, 1} /\ K \in Nat \ {0, 1} /\ m \in Nat
        /\ Whole(K - 1) < m /\ 3 * m < Whole(K)
    BY ScalarAssumption DEF Whole
  <1>2. \A n \in Nat : Whole(n) \in Nat \ {0}
    BY <1>1, PlaceIs DEF Whole
  <1>3. ASSUME NEW n \in Nat, NEW l \in Nat PROVE Whole(n + l) = Whole(n) * Whole(l)
    <2>1. ScalarBits * n \in Nat /\ ScalarBits * l \in Nat /\ ScalarBits * (n + l) = ScalarBits * n + ScalarBits * l
      BY <1>1
    <2> QED BY <2>1, PowerSum DEF Whole
  <1>4. ScBase \in Nat \ {0, 1, 2, 3}
    <2>1. ScalarBits - 2 \in Nat /\ 2 + (ScalarBits - 2) = ScalarBits
      BY <1>1
    <2>2. Power[1] = 2 /\ Power[2] = 4
      <3>1. Power[0 + 1] = 2 * Power[0] /\ Power[1 + 1] = 2 * Power[1] /\ Power[0] = 1
        BY PowerIs
      <3> QED BY <3>1
    <2>3. Power[2 + (ScalarBits - 2)] = Power[2] * Power[ScalarBits - 2]
      BY <2>1, PowerSum
    <2>4. Power[ScalarBits - 2] \in Nat \ {0}
      BY <2>1, PowerIn
    <2> QED BY <2>1, <2>2, <2>3, <2>4 DEF ScBase
  <1>5. K - 1 \in Nat /\ Whole(K - 1) \in Nat
    BY <1>1, <1>2
  <1> QED BY <1>1, <1>2, <1>3, <1>4, <1>5 DEF ScBase

LEMMA LimbsAre ==
  ASSUME NEW n \in Nat, NEW x \in Nat
  PROVE  LET v == LimbsOf(x, n, ScalarBits)
         IN v \in Cut(n, ScalarBits) /\ Numbers(v, n)
            /\ (\A k \in 0..(n - 1) : v[k] \in 0..(ScBase - 1))
            /\ ValueOf(v, n, ScalarBits) = x % Whole(n)
            /\ (x < Whole(n) => ValueOf(v, n, ScalarBits) = x)
  <1> DEFINE v == LimbsOf(x, n, ScalarBits)
  <1>1. ScalarBits \in Nat /\ ScBase \in Nat \ {0} /\ ScBase = Power[ScalarBits] /\ Whole(n) \in Nat \ {0}
    BY SizesAre
  <1>2. v \in Cut(n, ScalarBits)
    BY <1>1, LimbsAreCut
  <1>3. n <= n /\ ValueOf(v, n, ScalarBits) = x % Whole(n)
    BY <1>1, ValueOfLimbs DEF Whole
  <1>4. DOMAIN v = 0..(n - 1) /\ \A k \in 0..(n - 1) : v[k] \in 0..(ScBase - 1)
    BY <1>1, <1>2 DEF Cut
  <1>5. x < Whole(n) => x % Whole(n) = x
    BY <1>1
  <1> HIDE DEF v
  <1>6. Numbers(v, n)
    BY <1>1, <1>4 DEF Numbers
  <1> QED BY <1>2, <1>3, <1>4, <1>5, <1>6 DEF v

(* The only cut limbs of a value.                                          *)
LEMMA LimbsOfValue ==
  ASSUME NEW v \in Cut(K, ScalarBits), NEW x, ScalarValue(v) = x
  PROVE  v = ScalarLimbs(x)
  <1>1. ScalarBits \in Nat /\ K \in Nat
    BY SizesAre
  <1>2. v = LimbsOf(ValueOf(v, K, ScalarBits), K, ScalarBits)
    BY <1>1, LimbsUnique
  <1> QED BY <1>2 DEF ScalarLimbs, ScalarValue

LEMMA ReducedOnce ==
  ASSUME NEW x \in Nat, x < Whole(K)
  PROVE  reduce_add_sub_m(ScalarLimbs(x)) = ScalarLimbs(IF x < m THEN x ELSE x - m)
  <1> DEFINE v == ScalarLimbs(x)
             t == Borrowed(v, mLimbs, K, Power[ScalarBits])
  <1>1. ScalarBits \in Nat /\ K \in Nat /\ m \in Nat /\ ScBase = Power[ScalarBits] /\ m < Whole(K) /\ Whole(K) \in Nat
    BY SizesAre
  <1>2. (\A k \in 0..(K - 1) : v[k] \in 0..(Power[ScalarBits] - 1)) /\ ValueOf(v, K, ScalarBits) = x
    BY <1>1, LimbsAre DEF ScalarLimbs
  <1>3. (\A k \in 0..(K - 1) : mLimbs[k] \in 0..(Power[ScalarBits] - 1)) /\ ValueOf(mLimbs, K, ScalarBits) = m
    BY <1>1, LimbsAre DEF mLimbs
  <1>4. /\ t.limbs \in Cut(K, ScalarBits)
        /\ t.borrow = IF x < m THEN 1 ELSE 0
        /\ ValueOf(t.limbs, K, ScalarBits) = x - m + IF x < m THEN Power[ScalarBits * K] ELSE 0
    <2> HIDE DEF v
    <2>1. \A k \in 0..(K - 1) : v[k] \in 0..(Power[ScalarBits] - 1) /\ mLimbs[k] \in 0..(Power[ScalarBits] - 1)
      BY <1>2, <1>3
    <2> QED BY <1>1, <1>2, <1>3, <2>1, BorrowedIs
  <1>5. reduce_add_sub_m(v) = IF t.borrow = 1 THEN v ELSE t.limbs
    BY <1>1 DEF reduce_add_sub_m
  <1> HIDE DEF t
  <1>6. CASE x < m
    BY <1>4, <1>5, <1>6
  <1>7. CASE ~ (x < m)
    <2>1. ValueOf(t.limbs, K, ScalarBits) = x - m /\ t.borrow # 1
      BY <1>1, <1>4, <1>7
    <2>2. t.limbs = ScalarLimbs(x - m)
      BY <1>4, <2>1, LimbsOfValue DEF ScalarValue
    <2> QED BY <1>5, <1>7, <2>1, <2>2
  <1> QED BY <1>6, <1>7

-----------------------------------------------------------------------------
(* Barrett's quotient and the remainder it leaves, with the local names of *)
(* remainder as operators.                                                 *)
High(x) == [j \in 0..K |-> x[j + K - 1]]
LowCarry(h) == (Column(mu, h, K) + (Column(mu, h, K - 1) \div ScBase)) \div ScBase
Quotient(h) == [j \in 0..K |-> Column(mu, h, K + 1 + j) + IF j = 0 THEN LowCarry(h) ELSE 0]
Subtrahend(q) == Carried([k \in 0..K |-> Column(mLimbs, q, k)], ScBase)
Inverted == Whole(2 * K) \div m

LEMMA RemainderHas ==
  ASSUME NEW x
  PROVE  remainder(x) = Borrowed(x, Subtrahend(Quotient(High(x))), K, ScBase).limbs
  BY DEF remainder, High, LowCarry, Quotient, Subtrahend

LEMMA IndexesAre ==
  /\ ScalarBits \in Nat /\ K \in Nat \ {0, 1} /\ K - 1 \in Nat /\ K + 1 \in Nat /\ 2 * K \in Nat /\ m \in Nat \ {0}
  /\ ScBase \in Nat \ {0} /\ ScBase - 1 \in Nat /\ ScBase = Power[ScalarBits]
  /\ Whole(K - 1) \in Nat \ {0} /\ Whole(K) \in Nat \ {0} /\ Whole(K + 1) \in Nat \ {0} /\ Whole(2 * K) \in Nat \ {0}
  <1>1. ScalarBits \in Nat /\ ScBase \in Nat \ {0} /\ ScBase - 1 \in Nat /\ ScBase = Power[ScalarBits] /\ m \in Nat \ {0}
    <2>1. ScBase \in Nat \ {0, 1, 2, 3}
      BY SizesAre
    <2>2. ScBase \in Nat \ {0} /\ ScBase - 1 \in Nat
      BY <2>1
    <2> QED BY <2>2, SizesAre
  <1>2. K \in Nat \ {0, 1} /\ \A n \in Nat : Whole(n) \in Nat \ {0}
    BY SizesAre
  <1>3. K - 1 \in Nat /\ K + 1 \in Nat /\ 2 * K \in Nat
    BY <1>2
  <1> QED BY <1>1, <1>2, <1>3

LEMMA HighIs ==
  ASSUME NEW x \in 0..(Whole(2 * K) - 1), NEW X, X = LimbsOf(x, 2 * K, ScalarBits)
  PROVE  /\ \E l \in 0..(Whole(K - 1) - 1) : x = l + Whole(K - 1) * ValueOf(High(X), K + 1, ScalarBits)
         /\ ValueOf(High(X), K + 1, ScalarBits) \in 0..(Whole(K + 1) - 1)
         /\ Numbers(High(X), K + 1)
         /\ \A k \in 0..K : High(X)[k] \in 0..(ScBase - 1)
  <1>1. /\ ScalarBits \in Nat /\ K \in Nat \ {0, 1} /\ K - 1 \in Nat /\ K + 1 \in Nat /\ 2 * K \in Nat
        /\ ScBase \in Nat \ {0} /\ ScBase = Power[ScalarBits] /\ Whole(2 * K) \in Nat \ {0} /\ x \in Nat
    BY IndexesAre
  <1>2. /\ \A k \in 0..(2 * K - 1) : X[k] \in 0..(ScBase - 1)
        /\ ValueOf(X, 2 * K, ScalarBits) = x
    BY <1>1, LimbsAre
  <1>3. (K - 1) + (K + 1) = 2 * K /\ (K + 1) - 1 = K
    BY <1>1
  <1>4. High(X) = Upper(X, K - 1, K + 1)
    BY <1>1, <1>3 DEF High, Upper
  <1>5. x = ValueOf(X, K - 1, ScalarBits) + Whole(K - 1) * ValueOf(High(X), K + 1, ScalarBits)
    <2> DEFINE low == K - 1
               n == K + 1
    <2>1. low + n = 2 * K /\ low \in Nat /\ n \in Nat /\ ScalarBits \in Nat /\ \A k \in 0..(low + n - 1) : X[k] \in Int
      BY <1>1, <1>2, <1>3
    <2> HIDE DEF low, n
    <2>2. ValueOf(X, low + n, ScalarBits) =
            ValueOf(X, low, ScalarBits) + Power[ScalarBits * low] * ValueOf(Upper(X, low, n), n, ScalarBits)
      BY <2>1, ValueSplit
    <2> QED BY <1>2, <1>4, <2>1, <2>2 DEF Whole, low, n
  <1>6. ValueOf(X, K - 1, ScalarBits) \in 0..(Whole(K - 1) - 1)
    <2>1. \A k \in 0..((K - 1) - 1) : X[k] \in 0..(Power[ScalarBits] - 1)
      BY <1>1, <1>2
    <2> QED BY <1>1, <2>1, ValueBelow DEF Whole
  <1>7. \A k \in 0..K : High(X)[k] \in 0..(ScBase - 1)
    BY <1>1, <1>2 DEF High
  <1>8. DOMAIN High(X) = 0..K
    BY DEF High
  <1>9. Numbers(High(X), K + 1)
    BY <1>1, <1>3, <1>7, <1>8 DEF Numbers
  <1>10. ValueOf(High(X), K + 1, ScalarBits) \in 0..(Whole(K + 1) - 1)
    <2>1. \A k \in 0..((K + 1) - 1) : High(X)[k] \in 0..(Power[ScalarBits] - 1)
      BY <1>1, <1>3, <1>7
    <2> QED BY <1>1, <2>1, ValueBelow DEF Whole
  <1> QED BY <1>5, <1>6, <1>7, <1>9, <1>10

LEMMA MuIs ==
  /\ Inverted \in Nat /\ Numbers(mu, K + 1) /\ ValueOf(mu, K + 1, ScalarBits) = Inverted
  /\ Whole(K - 1) * Whole(K + 1) = m * Inverted + (Whole(2 * K) % m)
  /\ Whole(2 * K) % m \in Nat
  <1>1. /\ ScalarBits \in Nat /\ K \in Nat \ {0, 1} /\ K - 1 \in Nat /\ K + 1 \in Nat /\ 2 * K \in Nat /\ m \in Nat \ {0}
        /\ Whole(K - 1) \in Nat \ {0} /\ Whole(K + 1) \in Nat \ {0} /\ Whole(2 * K) \in Nat \ {0} /\ Whole(K - 1) < m
    <2>1. Whole(K - 1) < m
      BY SizesAre
    <2> QED BY <2>1, IndexesAre
  <1>2. Whole(2 * K) = m * Inverted + (Whole(2 * K) % m) /\ Inverted \in Nat /\ Whole(2 * K) % m \in Nat
    <2> DEFINE n == Whole(2 * K)
    <2>1. n \in Nat /\ m \in Nat \ {0}
      BY <1>1
    <2> HIDE DEF n
    <2>2. n = m * (n \div m) + (n % m) /\ n % m \in 0..(m - 1) /\ n \div m \in Nat
      BY <2>1, DivMod
    <2>3. Inverted = n \div m
      BY DEF Inverted, n
    <2>4. n % m \in Nat
      BY <2>1, <2>2
    <2> QED BY <2>2, <2>3, <2>4 DEF n
  <1>3. Whole(2 * K) = Whole(K - 1) * Whole(K + 1)
    <2>1. (K - 1) + (K + 1) = 2 * K
      BY <1>1
    <2>2. Whole((K - 1) + (K + 1)) = Whole(K - 1) * Whole(K + 1)
      BY <1>1, SizesAre
    <2> QED BY <2>1, <2>2
  <1>4. Inverted < Whole(K + 1)
    <2> DEFINE W == Whole(K - 1)
               top == Whole(K + 1)
               MU == Inverted
               R == Whole(2 * K) % m
    <2>1. W \in Nat \ {0} /\ top \in Nat \ {0} /\ MU \in Nat /\ R \in Nat /\ W < m /\ W * top = m * MU + R
      BY <1>1, <1>2, <1>3
    <2> HIDE DEF W, top, MU, R
    <2>2. top * W + top <= top * m
      BY <1>1, <2>1, NextMultiple
    <2>3. CASE top <= MU
      <3>1. m * top <= m * MU
        BY <1>1, <2>1, <2>3, TimesKeeps
      <3>2. m * top = top * m /\ W * top = top * W /\ m * MU \in Nat /\ top * W \in Nat /\ top * m \in Nat
        BY <1>1, <2>1
      <3> QED BY <2>1, <2>2, <3>1, <3>2
    <2> QED BY <2>1, <2>3 DEF MU, top
  <1>5. mu = LimbsOf(Inverted, K + 1, ScalarBits)
    BY DEF mu, Inverted, Whole
  <1>6. Numbers(mu, K + 1) /\ ValueOf(mu, K + 1, ScalarBits) = Inverted
    BY <1>1, <1>2, <1>4, <1>5, LimbsAre
  <1> QED BY <1>1, <1>2, <1>3, <1>6

(* What is not computed of the product by mu is no more than Neglected.    *)
LEMMA NeglectedIs ==
  ASSUME NEW h, Numbers(h, K + 1), \A k \in 0..K : h[k] <= ScBase - 1
  PROVE  /\ ValueOf(Columns(mu, h), K - 1, ScalarBits) \in Nat
         /\ ValueOf(Columns(mu, h), K - 1, ScalarBits) <= Neglected
         /\ Neglected \in Nat
  <1> DEFINE largest == [j \in 0..K |-> ScBase - 1]
             u == Columns(mu, h)
             v == [k \in 0..(K - 2) |-> Column(mu, largest, k)]
  <1>1. ScalarBits \in Nat /\ K \in Nat \ {0, 1} /\ K - 1 \in Nat /\ K + 1 \in Nat /\ ScBase - 1 \in Nat
    BY IndexesAre
  <1>2. Numbers(largest, K + 1)
    BY <1>1 DEF Numbers
  <1>3. \A k \in 0..((K + 1) - 1) : h[k] <= largest[k]
    BY <1>1
  <1>4. Neglected = ValueOf(v, K - 1, ScalarBits)
    BY DEF Neglected
  <1> HIDE DEF largest
  <1>5. ASSUME NEW k \in Nat
        PROVE  Column(mu, h, k) \in Nat /\ Column(mu, largest, k) \in Nat /\ Column(mu, h, k) <= Column(mu, largest, k)
    <2>1. Numbers(mu, K + 1)
      BY MuIs
    <2>2. Column(mu, largest, k) \in Nat
      BY <1>1, <1>2, <2>1, ColumnIsNat
    <2> QED BY <1>1, <1>2, <1>3, <2>1, <2>2, ColumnGrows
  <1>6. \A k \in 0..((K - 1) - 1) : u[k] \in Nat /\ v[k] \in Nat /\ u[k] <= v[k]
    BY <1>1, <1>5 DEF Columns
  <1> HIDE DEF u, v
  <1>7. ValueOf(u, K - 1, ScalarBits) \in Nat /\ ValueOf(v, K - 1, ScalarBits) \in Nat
    BY <1>1, <1>6, ValueIsNat
  <1>8. ValueOf(u, K - 1, ScalarBits) <= ValueOf(v, K - 1, ScalarBits)
    BY <1>1, <1>6, ValueGrows
  <1> QED BY <1>4, <1>7, <1>8 DEF u

(* A number in the lowest limb alone.                                      *)
LEMMA ValueLowest ==
  ASSUME NEW bits \in Nat, NEW n \in Nat, NEW c \in Int, NEW v, v[0] = c, \A k \in 1..n : v[k] = 0
  PROVE  ValueOf(v, n + 1, bits) = c
  <1>1. \A k \in 0..(1 + n - 1) : v[k] \in Int
    <2> SUFFICES ASSUME NEW k \in 0..n PROVE v[k] \in Int
      OBVIOUS
    <2>1. CASE k = 0
      BY <2>1
    <2>2. CASE k # 0
      BY <2>2
    <2> QED BY <2>1, <2>2
  <1>2. ValueOf(v, 1 + n, bits) = ValueOf(v, 1, bits) + Power[bits * 1] * ValueOf(Upper(v, 1, n), n, bits)
    BY <1>1, ValueSplit
  <1>3. ValueOf(Upper(v, 1, n), n, bits) = 0
    <2>1. \A k \in 0..(n - 1) : Upper(v, 1, n)[k] = 0
      BY DEF Upper
    <2> QED BY <2>1, ValueNone
  <1>4. ValueOf(v, 1, bits) = c
    <2>1. \A k \in 0..0 : v[k] \in Int
      BY <1>1
    <2>2. ValueOf(v, 0 + 1, bits) = ValueOf(v, 0, bits) + v[0] * Power[bits * 0]
      BY <2>1, ValueNext
    <2>3. Power[bits * 0] = 1 /\ ValueOf(v, 0, bits) = 0
      BY PlaceIs, ValueZero
    <2> QED BY <2>2, <2>3
  <1>5. Power[bits * 1] \in Nat /\ n + 1 = 1 + n
    BY PlaceIs
  <1> QED BY <1>2, <1>3, <1>4, <1>5

LEMMA QuotientLimbs ==
  ASSUME NEW h, Numbers(h, K + 1)
  PROVE  LET q == Quotient(h)
             Q == ValueOf(q, K + 1, ScalarBits)
             D == ValueOf(Columns(mu, h), K - 1, ScalarBits)
             product == Inverted * ValueOf(h, K + 1, ScalarBits)
         IN /\ Numbers(q, K + 1) /\ Q \in Nat /\ product \in Nat
            /\ Whole(K + 1) * Q <= product /\ product < D + Whole(K + 1) * Q + Whole(K + 1)
  <1> DEFINE Cols == Columns(mu, h)
             U == Upper(Cols, K - 1, K + 3)
             V == Upper(U, 2, K + 1)
             q == Quotient(h)
             Q == ValueOf(q, K + 1, ScalarBits)
             D == ValueOf(Cols, K - 1, ScalarBits)
             product == Inverted * ValueOf(h, K + 1, ScalarBits)
             low == ValueOf(U, 2, ScalarBits)
  <1>1. /\ ScalarBits \in Nat /\ K \in Nat \ {0, 1} /\ K - 1 \in Nat /\ K + 1 \in Nat /\ 2 * K \in Nat
        /\ ScBase \in Nat \ {0} /\ ScBase = Power[ScalarBits] /\ Whole(K - 1) \in Nat \ {0} /\ Whole(K + 1) \in Nat \ {0}
    BY IndexesAre
  <1>2. \A k \in Nat : Cols[k] = Column(mu, h, k) /\ Cols[k] \in Nat
    <2>1. Numbers(mu, K + 1)
      BY MuIs
    <2>2. \A k \in Nat : Cols[k] = Column(mu, h, k) /\ Column(mu, h, k) \in Nat
      BY <1>1, <2>1, ProductValue
    <2> HIDE DEF Cols
    <2> QED BY <2>2
  <1>3. product = ValueOf(Cols, 2 * K + 2, ScalarBits) /\ product \in Nat /\ D \in Nat
    <2>1. 2 * K + 2 \in Nat /\ 2 * K + 2 >= (K + 1) + (K + 1)
      BY <1>1
    <2>2. Numbers(mu, K + 1) /\ ValueOf(mu, K + 1, ScalarBits) = Inverted
      BY MuIs
    <2>3. ValueOf(Cols, 2 * K + 2, ScalarBits) = ValueOf(mu, K + 1, ScalarBits) * ValueOf(h, K + 1, ScalarBits)
      BY <1>1, <2>1, <2>2, ProductValue
    <2>4. ValueOf(Cols, 2 * K + 2, ScalarBits) \in Nat /\ D \in Nat
      BY <1>1, <2>1, <2>2, ProductValue
    <2> QED BY <2>2, <2>3, <2>4
  <1>4. \A k \in 0..(K + 2) : U[k] = Cols[K - 1 + k] /\ U[k] \in Nat
    <2>1. \A k \in 0..(K + 2) : K - 1 + k \in Nat
      BY <1>1
    <2>2. \A k \in 0..((K + 3) - 1) : U[k] = Cols[K - 1 + k]
      BY DEF Upper
    <2>3. (K + 3) - 1 = K + 2
      BY <1>1
    <2> HIDE DEF U, Cols
    <2> QED BY <1>2, <2>1, <2>2, <2>3
  <1>5. \A k \in 0..K : V[k] = Column(mu, h, K + 1 + k) /\ V[k] \in Nat
    <2>1. \A k \in 0..K : K + 1 + k \in Nat /\ 2 + k \in 0..(K + 2) /\ K - 1 + (2 + k) = K + 1 + k
      BY <1>1
    <2>2. \A k \in 0..((K + 1) - 1) : V[k] = U[2 + k]
      BY DEF Upper
    <2>3. (K + 1) - 1 = K
      BY <1>1
    <2> HIDE DEF U, V, Cols
    <2> QED BY <1>2, <1>4, <2>1, <2>2, <2>3
  <1>6. product = D + Whole(K - 1) * ValueOf(U, K + 3, ScalarBits)
    <2> DEFINE a == K - 1
               n == K + 3
    <2>1. a + n = 2 * K + 2 /\ a \in Nat /\ n \in Nat /\ ScalarBits \in Nat
      BY <1>1
    <2>2. \A k \in 0..(a + n - 1) : Cols[k] \in Int
      BY <1>2, <2>1
    <2> HIDE DEF a, n, Cols
    <2>3. ValueOf(Cols, a + n, ScalarBits) = ValueOf(Cols, a, ScalarBits) + Power[ScalarBits * a] * ValueOf(Upper(Cols, a, n), n, ScalarBits)
      BY <2>1, <2>2, ValueSplit
    <2> QED BY <1>3, <2>1, <2>3 DEF Whole, a, n
  <1>7. ValueOf(U, K + 3, ScalarBits) = low + Whole(2) * ValueOf(V, K + 1, ScalarBits)
    <2> DEFINE n == K + 1
               a == 2
    <2>1. a + n = K + 3 /\ a \in Nat /\ n \in Nat /\ ScalarBits \in Nat /\ a + n - 1 = K + 2
      BY <1>1
    <2> HIDE DEF n, a, U
    <2>2. \A k \in 0..(a + n - 1) : U[k] \in Int
      BY <1>4, <2>1
    <2>3. ValueOf(U, a + n, ScalarBits) = ValueOf(U, a, ScalarBits) + Power[ScalarBits * a] * ValueOf(Upper(U, a, n), n, ScalarBits)
      BY <2>1, <2>2, ValueSplit
    <2> QED BY <2>1, <2>3 DEF Whole, a, n
  <1>8. Whole(2) = ScBase * ScBase /\ Whole(2) \in Nat \ {0}
    <2>1. Power[ScalarBits * 0] = 1 /\ Power[ScalarBits * (0 + 1)] = Power[ScalarBits * 0] * Power[ScalarBits]
      BY <1>1, PlaceIs
    <2>2. Power[ScalarBits * (1 + 1)] = Power[ScalarBits * 1] * Power[ScalarBits] /\ Power[ScalarBits * 2] \in Nat \ {0}
      BY <1>1, PlaceIs
    <2> QED BY <1>1, <2>1, <2>2 DEF Whole
  <1>9. low = Cols[K - 1] + ScBase * Cols[K] /\ low \in Nat /\ Cols[K - 1] \in Nat /\ Cols[K] \in Nat
    <2>1. U[0] = Cols[K - 1] /\ U[1] = Cols[K] /\ U[0] \in Nat /\ U[1] \in Nat
      <3>1. 0 \in 0..(K + 2) /\ 1 \in 0..(K + 2) /\ K - 1 + 0 = K - 1 /\ K - 1 + 1 = K
        BY <1>1
      <3> HIDE DEF U, Cols
      <3> QED BY <1>4, <3>1
    <2> HIDE DEF U, Cols
    <2>2. \A k \in 0..0 : U[k] \in Int
      BY <2>1
    <2>3. \A k \in 0..1 : U[k] \in Int
      BY <2>1
    <2>4. ValueOf(U, 0 + 1, ScalarBits) = ValueOf(U, 0, ScalarBits) + U[0] * Power[ScalarBits * 0]
      BY <1>1, <2>2, ValueNext
    <2>5. ValueOf(U, 1 + 1, ScalarBits) = ValueOf(U, 1, ScalarBits) + U[1] * Power[ScalarBits * 1]
      BY <1>1, <2>3, ValueNext
    <2>6. Power[ScalarBits * 0] = 1 /\ ScalarBits * 1 = ScalarBits /\ ValueOf(U, 0, ScalarBits) = 0
      BY <1>1, PlaceIs, ValueZero
    <2> QED BY <1>1, <2>1, <2>4, <2>5, <2>6
  <1>10. LowCarry(h) = low \div Whole(2) /\ LowCarry(h) \in Nat
    <2> DEFINE c == Cols[K - 1]
               d == Cols[K]
               b == ScBase
    <2>1. c \in Nat /\ d \in Nat /\ b \in Nat \ {0} /\ low = c + b * d
      BY <1>1, <1>9
    <2>2. LowCarry(h) = (d + (c \div b)) \div b
      BY <1>1, <1>2 DEF LowCarry
    <2> HIDE DEF c, d, b, low
    <2>3. (c + b * d) \div b = (c \div b) + d
      BY <2>1, ModMultiple
    <2>4. low \in Nat
      BY <2>1
    <2>5. low \div (b * b) = (low \div b) \div b
      BY <2>1, <2>4, DivDiv
    <2>6. c \div b \in Nat
      BY <2>1, DivMod
    <2>7. LowCarry(h) = low \div Whole(2)
      BY <1>8, <2>1, <2>2, <2>3, <2>5, <2>6 DEF b
    <2>8. low \div Whole(2) \in Nat
      BY <1>8, <2>4, DivMod
    <2> QED BY <2>7, <2>8
  <1>11. \A k \in 0..K : q[k] = V[k] + IF k = 0 THEN LowCarry(h) ELSE 0
    <2>1. \A k \in 0..K : q[k] = Column(mu, h, K + 1 + k) + IF k = 0 THEN LowCarry(h) ELSE 0
      BY DEF Quotient
    <2> HIDE DEF q, V
    <2> QED BY <1>5, <2>1
  <1>12. Numbers(q, K + 1) /\ Q \in Nat /\ ValueOf(V, K + 1, ScalarBits) \in Nat /\ Q = ValueOf(V, K + 1, ScalarBits) + LowCarry(h)
    <2> DEFINE one == [k \in 0..K |-> IF k = 0 THEN LowCarry(h) ELSE 0]
               n == K + 1
    <2>1. DOMAIN q = 0..K /\ (K + 1) - 1 = K
      BY <1>1 DEF Quotient
    <2> HIDE DEF q, V
    <2>2. \A k \in 0..K : q[k] \in Nat
      BY <1>5, <1>10, <1>11
    <2>3. Numbers(q, K + 1)
      BY <2>1, <2>2 DEF Numbers
    <2>4. \A k \in 0..K : one[k] \in Nat /\ q[k] = V[k] + one[k]
      BY <1>5, <1>10, <1>11
    <2>5. one[0] = LowCarry(h) /\ \A k \in 1..K : one[k] = 0
      BY <1>1
    <2> HIDE DEF one
    <2>6. ValueOf(one, K + 1, ScalarBits) = LowCarry(h)
      BY <1>1, <1>10, <2>5, ValueLowest
    <2>7. n \in Nat /\ n - 1 = K
      BY <1>1
    <2> HIDE DEF n
    <2>8. \A k \in 0..(n - 1) : V[k] \in Nat /\ q[k] \in Nat /\ V[k] \in Int /\ one[k] \in Int /\ q[k] = V[k] + one[k]
      BY <1>5, <2>2, <2>4, <2>7
    <2>9. ValueOf(q, n, ScalarBits) = ValueOf(V, n, ScalarBits) + ValueOf(one, n, ScalarBits)
      BY <1>1, <2>7, <2>8, ValueAdds
    <2>10. ValueOf(q, n, ScalarBits) \in Nat /\ ValueOf(V, n, ScalarBits) \in Nat
      BY <1>1, <2>7, <2>8, ValueIsNat
    <2> QED BY <2>3, <2>6, <2>9, <2>10 DEF n
  <1>13. Whole(K - 1) * Whole(2) = Whole(K + 1)
    <2>1. (K - 1) + 2 = K + 1 /\ 2 \in Nat
      BY <1>1
    <2>2. Whole((K - 1) + 2) = Whole(K - 1) * Whole(2)
      BY <1>1, <2>1, SizesAre
    <2> QED BY <2>1, <2>2
  <1>14. Whole(K + 1) * Q <= product /\ product < D + Whole(K + 1) * Q + Whole(K + 1)
    <2> DEFINE W == Whole(K - 1)
               two == Whole(2)
               top == Whole(K + 1)
               c == low \div two
               r == low % two
               vv == ValueOf(V, K + 1, ScalarBits)
               u == ValueOf(U, K + 3, ScalarBits)
    <2>1. /\ W \in Nat \ {0} /\ two \in Nat \ {0} /\ top \in Nat \ {0} /\ low \in Nat /\ vv \in Nat /\ Q \in Nat /\ D \in Nat
          /\ W * two = top /\ u = low + two * vv /\ product = D + W * u
      BY <1>1, <1>3, <1>6, <1>7, <1>8, <1>9, <1>12, <1>13
    <2>2. Q = vv + c
      BY <1>10, <1>12
    <2> HIDE DEF W, two, top, low, vv, u, Q, D, product
    <2>3. low = two * c + r /\ r \in 0..(two - 1) /\ c \in Nat
      BY <2>1, DivMod
    <2> HIDE DEF c, r
    <2>4. two * Q = two * vv + two * c /\ two * vv \in Nat /\ two * c \in Nat /\ two * Q \in Nat
      BY <2>1, <2>2, <2>3
    <2>5. u = two * Q + r /\ r \in Nat
      BY <2>1, <2>3, <2>4
    <2>6. W * u = W * (two * Q) + W * r /\ W * r \in Nat
      BY <2>1, <2>4, <2>5
    <2>7. W * (two * Q) = (W * two) * Q /\ (W * two) * Q = top * Q /\ top * Q \in Nat
      BY <2>1
    <2>8. W * r + W <= W * two
      <3>1. r \in Nat /\ r < two
        BY <2>1, <2>3
      <3> QED BY <2>1, <3>1, NextMultiple
    <2> DEFINE A == top * Q
               B == W * r
    <2>9. product = D + (A + B) /\ B + W <= top /\ A \in Nat /\ B \in Nat
      BY <2>1, <2>6, <2>7, <2>8
    <2> HIDE DEF A, B
    <2>10. A <= product /\ product < D + A + top
      BY <2>1, <2>9
    <2> QED BY <2>10 DEF A, top
  <1> QED BY <1>3, <1>12, <1>14

(* What remainder leaves is the number less a multiple of m, and at most   *)
(* two more multiples are in it.                                           *)
LEMMA RemainderIs ==
  ASSUME NEW x \in 0..(Whole(2 * K) - 1), NEW X, X = LimbsOf(x, 2 * K, ScalarBits)
  PROVE  \E Q \in Nat : m * Q <= x /\ x < m * Q + 3 * m /\ remainder(X) = ScalarLimbs(x - m * Q)
  <1> DEFINE H == High(X)
             q == Quotient(H)
             Q == ValueOf(q, K + 1, ScalarBits)
             h == ValueOf(H, K + 1, ScalarBits)
             D == ValueOf(Columns(mu, H), K - 1, ScalarBits)
  <1>1. /\ ScalarBits \in Nat /\ K \in Nat \ {0, 1} /\ K - 1 \in Nat /\ K + 1 \in Nat /\ 2 * K \in Nat /\ m \in Nat \ {0}
        /\ ScBase \in Nat \ {0} /\ ScBase - 1 \in Nat /\ ScBase = Power[ScalarBits]
        /\ Whole(K - 1) \in Nat \ {0} /\ Whole(K) \in Nat \ {0} /\ Whole(K + 1) \in Nat \ {0} /\ Whole(2 * K) \in Nat \ {0}
    BY IndexesAre
  <1>2. /\ h \in 0..(Whole(K + 1) - 1) /\ Numbers(H, K + 1)
        /\ \A k \in 0..K : H[k] \in 0..(ScBase - 1)
    BY HighIs
  <1>3. PICK l \in 0..(Whole(K - 1) - 1) : x = l + Whole(K - 1) * h
    <2>1. \E l \in 0..(Whole(K - 1) - 1) : x = l + Whole(K - 1) * ValueOf(High(X), K + 1, ScalarBits)
      BY HighIs
    <2> QED BY <2>1
  <1>4. \A k \in 0..K : H[k] <= ScBase - 1
    BY <1>1, <1>2
  <1>5. D \in Nat /\ D <= Neglected /\ Neglected \in Nat
    <2> HIDE DEF H
    <2> QED BY <1>2, <1>4, NeglectedIs
  <1>6. /\ Numbers(q, K + 1) /\ Q \in Nat /\ Inverted * h \in Nat
        /\ Whole(K + 1) * Q <= Inverted * h /\ Inverted * h < D + Whole(K + 1) * Q + Whole(K + 1)
    <2> HIDE DEF H
    <2> QED BY <1>2, QuotientLimbs
  <1>7. m * Q <= x /\ x < m * Q + 3 * m
    <2> DEFINE W == Whole(K - 1)
               top == Whole(K + 1)
               MU == Inverted
               R == Whole(2 * K) % m
               lost == Neglected
    <2>1. MU \in Nat /\ R \in Nat /\ W * top = m * MU + R
      BY MuIs
    <2>2. (W - 1) * top + R * (top - 1) + m * lost <= 2 * m * top
      BY ScalarAssumption DEF Whole
    <2>3. W \in Nat \ {0} /\ top \in Nat \ {0} /\ l \in 0..(W - 1) /\ h \in 0..(top - 1) /\ x = l + W * h
      BY <1>1, <1>2, <1>3
    <2>4. D \in Nat /\ lost \in Nat /\ D <= lost /\ top * Q <= MU * h /\ MU * h < D + top * Q + top /\ Q \in Nat
      BY <1>5, <1>6
    <2> HIDE DEF W, top, MU, R, lost, D, Q, h, q, H
    <2>5. m * Q <= l + W * h /\ l + W * h < m * Q + 3 * m
      BY <1>1, <2>1, <2>2, <2>3, <2>4, QuotientIs
    <2> QED BY <2>3, <2>5
  <1> DEFINE Cols == [k \in 0..K |-> Column(mLimbs, q, k)]
             r2 == Carried(Cols, ScBase)
             t == Borrowed(X, r2, K, Power[ScalarBits])
  <1>8. remainder(X) = t.limbs
    BY <1>1, RemainderHas DEF Subtrahend
  <1>9. Numbers(mLimbs, K) /\ ValueOf(mLimbs, K, ScalarBits) = m
    <2>1. mLimbs = LimbsOf(m, K, ScalarBits) /\ m < Whole(K)
      BY <1>1, SizesAre DEF mLimbs
    <2> QED BY <1>1, <2>1, LimbsAre
  <1>10. ValueOf(Cols, K, ScalarBits) % Whole(K) = (m * Q) % Whole(K) /\ \A k \in 0..K : Cols[k] \in Nat
    <2> HIDE DEF q, H
    <2> DEFINE E == Columns(mLimbs, q)
    <2>1. 2 * K + 1 \in Nat /\ 2 * K + 1 >= K + (K + 1)
      BY <1>1
    <2>2. ValueOf(E, 2 * K + 1, ScalarBits) = m * Q
      <3> DEFINE n == 2 * K + 1
                 c == K + 1
      <3>1. n \in Nat /\ n >= K + c /\ c \in Nat /\ Numbers(q, c) /\ Numbers(mLimbs, K)
        BY <1>1, <1>6, <1>9, <2>1
      <3> HIDE DEF n, c
      <3>2. ValueOf(Columns(mLimbs, q), n, ScalarBits) = ValueOf(mLimbs, K, ScalarBits) * ValueOf(q, c, ScalarBits)
        BY <1>1, <3>1, ProductValue
      <3>3. ValueOf(E, n, ScalarBits) = m * ValueOf(q, c, ScalarBits)
        BY <1>9, <3>2 DEF E
      <3> QED BY <3>3 DEF n, c
    <2>3. \A k \in Nat : E[k] = Column(mLimbs, q, k) /\ Column(mLimbs, q, k) \in Nat
      BY <1>1, <1>6, <1>9, ProductValue
    <2> HIDE DEF E
    <2>4. \A k \in 0..K : Cols[k] \in Nat /\ Cols[k] = E[k] /\ Cols[k] \in Int
      BY <1>1, <2>3
    <2> HIDE DEF Cols
    <2>5. ValueOf(Cols, K, ScalarBits) = ValueOf(E, K, ScalarBits)
      <3>1. \A k \in 0..(K - 1) : Cols[k] \in Int /\ Cols[k] = E[k]
        BY <1>1, <2>4
      <3> QED BY <1>1, <3>1, ValueSame
    <2>6. ValueOf(E, 2 * K + 1, ScalarBits) = ValueOf(E, K, ScalarBits) + Whole(K) * ValueOf(Upper(E, K, K + 1), K + 1, ScalarBits)
      <3> DEFINE n == K + 1
      <3>1. n \in Nat /\ K + n = 2 * K + 1 /\ \A k \in 0..(K + n - 1) : E[k] \in Int
        BY <1>1, <2>3
      <3> HIDE DEF n
      <3>2. ValueOf(E, K + n, ScalarBits) = ValueOf(E, K, ScalarBits) + Power[ScalarBits * K] * ValueOf(Upper(E, K, n), n, ScalarBits)
        BY <1>1, <3>1, ValueSplit
      <3> QED BY <3>1, <3>2 DEF n, Whole
    <2> DEFINE low == ValueOf(Cols, K, ScalarBits)
               u == Upper(E, K, K + 1)
               up == ValueOf(u, K + 1, ScalarBits)
               W == Whole(K)
    <2>7. low \in Nat /\ up \in Nat /\ W \in Nat \ {0}
      <3>1. \A k \in 0..(K - 1) : Cols[k] \in Nat
        BY <1>1, <2>4
      <3>2. \A k \in 0..((K + 1) - 1) : u[k] \in Nat
        <4>1. \A k \in 0..((K + 1) - 1) : u[k] = E[K + k] /\ K + k \in Nat
          BY <1>1 DEF Upper
        <4> HIDE DEF u
        <4> QED BY <2>3, <4>1
      <3> HIDE DEF u
      <3> QED BY <1>1, <3>1, <3>2, ValueIsNat
    <2>8. m * Q = low + W * up
      BY <2>2, <2>5, <2>6
    <2> HIDE DEF low, up, W
    <2>9. (low + W * up) % W = low % W
      BY <2>7, ModMultiple
    <2> QED BY <2>4, <2>8, <2>9 DEF low, W
  <1>11. /\ \A k \in 0..(K - 1) : r2[k] \in 0..(Power[ScalarBits] - 1)
         /\ ValueOf(r2, K, ScalarBits) = (m * Q) % Whole(K)
    <2>1. DOMAIN Cols = 0..K
      OBVIOUS
    <2> HIDE DEF Cols, Q, q, H
    <2>2. /\ \A k \in 0..(K - 1) : r2[k] \in 0..(Power[ScalarBits] - 1)
          /\ ValueOf(r2, K, ScalarBits) = ValueOf(Cols, K, ScalarBits) % Power[ScalarBits * K]
      BY <1>1, <1>10, <2>1, CarriedIs
    <2> QED BY <1>10, <2>2 DEF Whole
  <1>12. /\ \A k \in 0..(K - 1) : X[k] \in 0..(Power[ScalarBits] - 1)
         /\ ValueOf(X, K, ScalarBits) = x % Whole(K)
    <2>1. x \in Nat /\ K <= 2 * K
      BY <1>1
    <2>2. \A k \in 0..(2 * K - 1) : X[k] \in 0..(ScBase - 1)
      BY <1>1, <2>1, LimbsAre
    <2>3. ValueOf(LimbsOf(x, 2 * K, ScalarBits), K, ScalarBits) = x % Power[ScalarBits * K]
      BY <1>1, <2>1, ValueOfLimbs
    <2> QED BY <1>1, <2>2, <2>3 DEF Whole
  <1> DEFINE a == x % Whole(K)
             b == (m * Q) % Whole(K)
  <1>13. /\ t.limbs \in Cut(K, ScalarBits)
         /\ ValueOf(t.limbs, K, ScalarBits) = a - b + IF a < b THEN Whole(K) ELSE 0
    <2> HIDE DEF r2, Cols, Q, q, H
    <2>1. \A k \in 0..(K - 1) : X[k] \in 0..(Power[ScalarBits] - 1) /\ r2[k] \in 0..(Power[ScalarBits] - 1)
      BY <1>11, <1>12
    <2>2. /\ t.limbs \in Cut(K, ScalarBits)
          /\ ValueOf(t.limbs, K, ScalarBits) =
               ValueOf(X, K, ScalarBits) - ValueOf(r2, K, ScalarBits)
                 + IF ValueOf(X, K, ScalarBits) < ValueOf(r2, K, ScalarBits) THEN Power[ScalarBits * K] ELSE 0
      BY <1>1, <2>1, BorrowedIs
    <2> HIDE DEF t
    <2> QED BY <1>11, <1>12, <2>2 DEF Whole
  <1>14. ValueOf(t.limbs, K, ScalarBits) = x - m * Q
    <2> DEFINE W == Whole(K)
               g == x \div W
               y == m * Q
               e == y \div W
               d == x - y
    <2>1. W \in Nat \ {0} /\ x \in Nat /\ y \in Nat /\ y <= x /\ x < y + 3 * m /\ 3 * m < W
      <3>1. 3 * m < W
        BY SizesAre
      <3> HIDE DEF q, H
      <3>2. y \in Nat
        BY <1>1, <1>6
      <3> QED BY <1>1, <1>7, <3>1, <3>2
    <2>2. a = x % W /\ b = y % W /\ ValueOf(t.limbs, K, ScalarBits) = a - b + IF a < b THEN W ELSE 0
      BY <1>13
    <2>3. d \in 0..(W - 1) /\ x = d + y /\ x = y + d /\ d \in Nat
      BY <1>1, <2>1
    <2> HIDE DEF t, Q, q, H, y, W, a, b, d
    <2>4. (y + d) % W = ((y % W) + d) % W
      BY <2>1, <2>3, ModPlus
    <2>5. b \in 0..(W - 1)
      BY <2>1, <2>2, DivMod
    <2>6. a = (b + d) % W
      BY <2>2, <2>3, <2>4
    <2>7. CASE b + d < W
      <3>1. a = b + d
        BY <2>1, <2>3, <2>5, <2>6, <2>7
      <3> QED BY <2>1, <2>2, <2>3, <2>5, <3>1 DEF d, y
    <2>8. CASE ~ (b + d < W)
      <3>1. b + d \in Nat /\ b + d = W * 1 + (b + d - W) /\ b + d - W \in 0..(W - 1)
        BY <2>1, <2>3, <2>5, <2>8
      <3>2. (b + d) % W = b + d - W
        BY <2>1, <3>1, DivModIs
      <3>3. a = b + d - W
        BY <2>6, <3>2
      <3> QED BY <2>1, <2>2, <2>3, <2>5, <3>3 DEF d, y
    <2> QED BY <2>7, <2>8
  <1>15. t.limbs = ScalarLimbs(x - m * Q)
    <2> HIDE DEF t, Q, q, H
    <2> QED BY <1>13, <1>14, LimbsOfValue DEF ScalarValue
  <1> HIDE DEF t, q, H
  <1> QED BY <1>6, <1>7, <1>8, <1>15

(* After the remainder m is subtracted twice where it fits.                *)
LEMMA BarrettIs ==
  ASSUME NEW x \in 0..(Whole(2 * K) - 1), NEW X, X = LimbsOf(x, 2 * K, ScalarBits)
  PROVE  barrett_reduce(X) = ScalarLimbs(x % m)
  <1>1. m \in Nat \ {0} /\ Whole(2 * K) \in Nat \ {0} /\ 3 * m < Whole(K) /\ Whole(K) \in Nat /\ x \in Nat
    BY IndexesAre, SizesAre
  <1>2. PICK Q \in Nat : m * Q <= x /\ x < m * Q + 3 * m /\ remainder(X) = ScalarLimbs(x - m * Q)
    BY RemainderIs
  <1> DEFINE y == m * Q
             r == x - y
             s == IF r < m THEN r ELSE r - m
             u == IF s < m THEN s ELSE s - m
  <1>3. y \in Nat /\ r \in Nat /\ r < 3 * m /\ x = y + r
    <2>1. y \in Nat
      BY <1>1, <1>2
    <2>2. y <= x /\ x < y + 3 * m
      BY <1>2
    <2> HIDE DEF y
    <2> QED BY <1>1, <2>1, <2>2
  <1>4. remainder(X) = ScalarLimbs(r)
    BY <1>2
  <1> HIDE DEF r
  <1>5. s \in Nat /\ s < 2 * m /\ r < Whole(K) /\ s < Whole(K)
    BY <1>1, <1>3
  <1>6. reduce_add_sub_m(ScalarLimbs(r)) = ScalarLimbs(s)
    BY <1>3, <1>5, ReducedOnce
  <1>7. reduce_add_sub_m(ScalarLimbs(s)) = ScalarLimbs(u)
    <2> HIDE DEF s
    <2> QED BY <1>5, ReducedOnce
  <1>8. x % m = u
    <2>1. \E c \in 0..2 : r = u + m * c /\ u \in 0..(m - 1)
      <3>1. CASE r < m
        <4>1. r = u + m * 0 /\ u \in 0..(m - 1) /\ 0 \in 0..2
          BY <1>1, <1>3, <3>1
        <4> QED BY <4>1
      <3>2. CASE ~ (r < m) /\ r < 2 * m
        <4>1. r = u + m * 1 /\ u \in 0..(m - 1) /\ 1 \in 0..2
          BY <1>1, <1>3, <3>2
        <4> QED BY <4>1
      <3>3. CASE ~ (r < 2 * m)
        <4>1. r = u + m * 2 /\ u \in 0..(m - 1) /\ 2 \in 0..2
          BY <1>1, <1>3, <3>3
        <4> QED BY <4>1
      <3> QED BY <1>1, <1>3, <3>1, <3>2, <3>3
    <2>2. PICK c \in 0..2 : r = u + m * c /\ u \in 0..(m - 1)
      BY <2>1
    <2> HIDE DEF u, s
    <2> DEFINE q == Q + c
    <2>3. q \in Nat /\ x = m * q + u
      <3>1. m * (Q + c) = m * Q + m * c /\ m * c \in Nat /\ m * Q \in Nat
        BY <1>1
      <3>2. x = m * Q + r
        BY <1>3
      <3> QED BY <1>1, <2>2, <3>1, <3>2
    <2> HIDE DEF q
    <2> QED BY <1>1, <2>2, <2>3, DivModIs
  <1> QED BY <1>4, <1>6, <1>7, <1>8 DEF barrett_reduce

(* A value is below the number that fits its limbs.                        *)
LEMMA DigestIs ==
  ASSUME NEW x \in Nat, x < Whole(2 * K)
  PROVE  /\ sc25519_from64bytes(x) = ScalarLimbs(x % m)
         /\ x < Whole(K) => sc25519_from32bytes(x) = ScalarLimbs(x % m)
  <1>1. x \in 0..(Whole(2 * K) - 1)
    BY IndexesAre
  <1>2. sc25519_from64bytes(x) = ScalarLimbs(x % m)
    BY <1>1, BarrettIs DEF sc25519_from64bytes
  <1>3. x < Whole(K) => x % Whole(K) = x
    BY IndexesAre
  <1> QED BY <1>2, <1>3 DEF sc25519_from32bytes, Whole

(* ScalarLimbs that stand for a number that fits are the limbs of the number once*)
(* they are carried.                                                       *)
LEMMA CarriedFits ==
  ASSUME NEW bits \in Nat, NEW n \in Nat, NEW v, DOMAIN v = 0..n, \A k \in 0..n : v[k] \in Nat,
         NEW x \in Nat, x = ValueOf(v, n + 1, bits), x < Power[bits * (n + 1)]
  PROVE  Carried(v, Power[bits]) = LimbsOf(x, n + 1, bits)
  <1> DEFINE r == Carried(v, Power[bits])
             low == ValueOf(r, n, bits)
             W == Power[bits * n]
             base == Power[bits]
  <1>1. /\ DOMAIN r = 0..n /\ \A k \in 0..n : r[k] \in Nat
        /\ \A k \in 0..(n - 1) : r[k] \in 0..(base - 1)
        /\ ValueOf(r, n + 1, bits) = x
    BY CarriedIs
  <1>2. r = [k \in 0..n |-> r[k]]
    <2>1. r = [k \in DOMAIN v |-> r[k]]
      BY DEF Carried
    <2> QED BY <2>1
  <1> HIDE DEF r
  <1>3. x = low + r[n] * W
    <2>1. \A k \in 0..n : r[k] \in Int
      BY <1>1
    <2> QED BY <1>1, <2>1, ValueNext
  <1>4. low \in Nat
    <2>1. \A k \in 0..(n - 1) : r[k] \in Nat
      BY <1>1
    <2> QED BY <2>1, ValueIsNat
  <1>5. Power[bits * (n + 1)] = W * base /\ W \in Nat \ {0} /\ base \in Nat \ {0}
    BY PlaceIs
  <1>6. r[n] \in 0..(base - 1)
    <2> DEFINE a == r[n]
    <2>1. a \in Nat /\ x < W * base /\ x = low + a * W
      BY <1>1, <1>3, <1>5
    <2> HIDE DEF low, W, base, a
    <2>2. ~ (base <= a)
      <3> SUFFICES ASSUME base <= a PROVE FALSE
        OBVIOUS
      <3>1. W * base <= W * a
        BY <1>5, <2>1, TimesKeeps
      <3>2. W * a = a * W /\ W * a \in Nat /\ W * base \in Nat
        BY <1>5, <2>1
      <3> QED BY <1>4, <2>1, <3>1, <3>2
    <2>3. a \in 0..(base - 1)
      BY <1>5, <2>1, <2>2
    <2> QED BY <2>3 DEF a
  <1>7. \A k \in 0..n : r[k] \in 0..(base - 1)
    <2> SUFFICES ASSUME NEW k \in 0..n PROVE r[k] \in 0..(base - 1)
      OBVIOUS
    <2>1. k = n \/ k \in 0..(n - 1)
      OBVIOUS
    <2> QED BY <1>1, <1>6, <2>1
  <1>8. r \in Cut(n + 1, bits)
    <2>1. (n + 1) - 1 = n
      OBVIOUS
    <2> QED BY <1>2, <1>7, <2>1 DEF Cut
  <1> DEFINE len == n + 1
  <1>9. len \in Nat /\ r \in Cut(len, bits) /\ ValueOf(r, len, bits) = x
    BY <1>1, <1>8
  <1> HIDE DEF len
  <1>10. r = LimbsOf(ValueOf(r, len, bits), len, bits)
    BY <1>9, LimbsUnique
  <1> QED BY <1>9, <1>10 DEF len, r

(* The residue is the sum itself, or less m.                               *)
LEMMA ResidueOfSum ==
  ASSUME NEW s \in Nat, s < 2 * m
  PROVE  s % m = IF s < m THEN s ELSE s - m
  <1> DEFINE u == IF s < m THEN s ELSE s - m
  <1>1. m \in Nat \ {0}
    BY IndexesAre
  <1>2. \E c \in {0, 1} : s = m * c + u
    BY <1>1
  <1>3. PICK c \in {0, 1} : s = m * c + u
    BY <1>2
  <1>4. u \in 0..(m - 1) /\ c \in Nat
    BY <1>1
  <1> HIDE DEF u
  <1>5. s % m = u
    BY <1>1, <1>3, <1>4, DivModIs
  <1> QED BY <1>5 DEF u

LEMMA AddIs ==
  ASSUME NEW x \in 0..(m - 1), NEW y \in 0..(m - 1)
  PROVE  sc25519_add(ScalarLimbs(x), ScalarLimbs(y)) = ScalarLimbs((x + y) % m)
  <1> DEFINE X == ScalarLimbs(x)
             Y == ScalarLimbs(y)
             v == [i \in 0..(K - 1) |-> X[i] + Y[i]]
             r == Carried(v, Power[ScalarBits])
             n == K - 1
             s == x + y
  <1>1. /\ m \in Nat \ {0} /\ x \in Nat /\ y \in Nat /\ 3 * m < Whole(K) /\ Whole(K) \in Nat
        /\ ScalarBits \in Nat /\ n \in Nat /\ K = n + 1 /\ ScBase = Power[ScalarBits] /\ ScBase \in Nat \ {0}
        /\ K \in Nat
    BY IndexesAre, SizesAre
  <1>2. x < Whole(K) /\ y < Whole(K) /\ s \in Nat /\ s < Whole(K) /\ s < 2 * m
    BY <1>1
  <1>3. /\ \A k \in 0..(K - 1) : X[k] \in 0..(ScBase - 1)
        /\ ValueOf(X, K, ScalarBits) = x
    BY <1>1, <1>2, LimbsAre DEF ScalarLimbs
  <1>4. /\ \A k \in 0..(K - 1) : Y[k] \in 0..(ScBase - 1)
        /\ ValueOf(Y, K, ScalarBits) = y
    BY <1>1, <1>2, LimbsAre DEF ScalarLimbs
  <1> HIDE DEF X, Y
  <1>5. DOMAIN v = 0..n /\ \A k \in 0..(K - 1) : v[k] \in Nat /\ v[k] = X[k] + Y[k] /\ X[k] \in Int /\ Y[k] \in Int
    BY <1>1, <1>3, <1>4
  <1>6. sc25519_add(X, Y) = reduce_add_sub_m(r)
    BY <1>1 DEF sc25519_add
  <1> HIDE DEF v, n
  <1>7. ValueOf(v, K, ScalarBits) = s
    <2>1. \A k \in 0..(K - 1) : X[k] \in Int /\ Y[k] \in Int /\ v[k] = X[k] + Y[k]
      BY <1>5
    <2>2. ValueOf(v, K, ScalarBits) = ValueOf(X, K, ScalarBits) + ValueOf(Y, K, ScalarBits)
      BY <1>1, <2>1, ValueAdds
    <2> QED BY <1>3, <1>4, <2>2
  <1>8. r = ScalarLimbs(s)
    <2>1. \A k \in 0..n : v[k] \in Nat
      BY <1>1, <1>5
    <2>2. s = ValueOf(v, n + 1, ScalarBits) /\ s < Power[ScalarBits * (n + 1)]
      BY <1>1, <1>2, <1>7 DEF Whole
    <2> HIDE DEF s
    <2>3. r = LimbsOf(s, n + 1, ScalarBits)
      BY <1>1, <1>2, <1>5, <2>1, <2>2, CarriedFits
    <2> QED BY <1>1, <2>3 DEF ScalarLimbs
  <1> HIDE DEF s
  <1>9. reduce_add_sub_m(ScalarLimbs(s)) = ScalarLimbs(IF s < m THEN s ELSE s - m)
    BY <1>2, ReducedOnce
  <1>10. s % m = IF s < m THEN s ELSE s - m
    BY <1>2, ResidueOfSum
  <1>11. sc25519_add(X, Y) = ScalarLimbs(s % m)
    BY <1>6, <1>8, <1>9, <1>10
  <1> QED BY <1>11 DEF X, Y, s

LEMMA MulIs ==
  ASSUME NEW x \in 0..(m - 1), NEW y \in 0..(m - 1)
  PROVE  sc25519_mul(ScalarLimbs(x), ScalarLimbs(y)) = ScalarLimbs((x * y) % m)
  <1> DEFINE X == ScalarLimbs(x)
             Y == ScalarLimbs(y)
             v == [k \in 0..(2 * K - 1) |-> Column(X, Y, k)]
             r == Carried(v, Power[ScalarBits])
             n == 2 * K - 1
             p == x * y
  <1>1. /\ m \in Nat \ {0} /\ x \in Nat /\ y \in Nat /\ m < Whole(K) /\ Whole(K) \in Nat
        /\ ScalarBits \in Nat /\ n \in Nat /\ 2 * K = n + 1 /\ ScBase = Power[ScalarBits] /\ ScBase \in Nat \ {0}
        /\ K \in Nat
    BY IndexesAre, SizesAre
  <1>2. x < Whole(K) /\ y < Whole(K) /\ p \in Nat
    BY <1>1
  <1>3. p < Whole(2 * K)
    <2> DEFINE W == Whole(K)
    <2>1. K + K = 2 * K /\ Whole(K + K) = Whole(K) * Whole(K)
      BY <1>1, SizesAre
    <2> HIDE DEF W
    <2>2. W \in Nat /\ x < W /\ y < W /\ y <= W
      BY <1>1, <1>2 DEF W
    <2>3. x * y <= x * W
      BY <1>1, <2>2, TimesKeeps
    <2>4. W * x + W <= W * W
      BY <1>1, <2>2, NextMultiple
    <2>5. x * W = W * x /\ W * x \in Nat /\ W * W \in Nat /\ W > 0
      BY <1>1, <2>2
    <2> QED BY <1>2, <2>1, <2>2, <2>3, <2>4, <2>5 DEF W
  <1>4. Numbers(X, K) /\ ValueOf(X, K, ScalarBits) = x
    BY <1>1, <1>2, LimbsAre DEF ScalarLimbs
  <1>5. Numbers(Y, K) /\ ValueOf(Y, K, ScalarBits) = y
    BY <1>1, <1>2, LimbsAre DEF ScalarLimbs
  <1>6. sc25519_mul(X, Y) = barrett_reduce(r)
    BY <1>1 DEF sc25519_mul
  <1> HIDE DEF X, Y
  <1>7. \A k \in Nat : Columns(X, Y)[k] = Column(X, Y, k) /\ Column(X, Y, k) \in Nat
    BY <1>1, <1>4, <1>5, ProductValue
  <1>8. DOMAIN v = 0..n /\ \A k \in 0..n : v[k] \in Nat /\ v[k] = Columns(X, Y)[k]
    BY <1>1, <1>7
  <1> DEFINE len == 2 * K
  <1>9. len \in Nat /\ len >= K + K /\ len = n + 1
    BY <1>1
  <1> HIDE DEF v, n, len
  <1>10. ValueOf(v, n + 1, ScalarBits) = p
    <2>0. \A a \in Nat : a >= K + K => ValueOf(Columns(X, Y), a, ScalarBits) = ValueOf(X, K, ScalarBits) * ValueOf(Y, K, ScalarBits)
      BY <1>1, <1>4, <1>5, ProductValue
    <2>1. ValueOf(Columns(X, Y), len, ScalarBits) = ValueOf(X, K, ScalarBits) * ValueOf(Y, K, ScalarBits)
      BY <1>9, <2>0
    <2>2. \A k \in 0..(len - 1) : v[k] \in Int /\ v[k] = Columns(X, Y)[k]
      BY <1>1, <1>8, <1>9
    <2>3. ValueOf(v, len, ScalarBits) = ValueOf(Columns(X, Y), len, ScalarBits)
      BY <1>1, <1>9, <2>2, ValueSame
    <2> QED BY <1>4, <1>5, <1>9, <2>1, <2>3
  <1>11. r = LimbsOf(p, 2 * K, ScalarBits)
    <2>1. \A k \in 0..n : v[k] \in Nat
      BY <1>8
    <2>2. p = ValueOf(v, n + 1, ScalarBits) /\ p < Power[ScalarBits * (n + 1)]
      BY <1>1, <1>3, <1>10 DEF Whole
    <2> HIDE DEF p
    <2>3. r = LimbsOf(p, n + 1, ScalarBits)
      BY <1>1, <1>2, <1>8, <2>1, <2>2, CarriedFits
    <2> QED BY <1>1, <2>3
  <1>12. p \in 0..(Whole(2 * K) - 1)
    BY <1>1, <1>2, <1>3, IndexesAre
  <1>13. barrett_reduce(r) = ScalarLimbs(p % m)
    <2> HIDE DEF p, r
    <2> QED BY <1>11, <1>12, BarrettIs
  <1> QED BY <1>6, <1>13 DEF X, Y

-----------------------------------------------------------------------------
(* Digits of two and three bits.                                           *)
LEMMA PowerGrows ==
  ASSUME NEW a \in Nat, NEW b \in Nat, a <= b
  PROVE  Power[a] <= Power[b]
  <1> DEFINE d == b - a
             p == Power[a]
             q == Power[d]
  <1>1. d \in Nat /\ a + d = b
    OBVIOUS
  <1> HIDE DEF d
  <1>2. Power[a + d] = p * q /\ p \in Nat \ {0} /\ q \in Nat \ {0}
    BY <1>1, PowerSum, PowerIn
  <1> HIDE DEF p, q
  <1>3. p * 1 <= p * q
    BY <1>2, TimesKeeps
  <1> QED BY <1>1, <1>2, <1>3 DEF p

(* What is cut off above does not show in the lowest bits of what is left. *)
LEMMA BitsBelow ==
  ASSUME NEW y \in Nat, NEW s \in Nat, NEW n \in Nat, NEW t \in Nat, s + n <= t
  PROVE  ((y % Power[t]) \div Power[s]) % Power[n] = (y \div Power[s]) % Power[n]
  <1> DEFINE d == t - s - n
             p == Power[s]
             q == Power[n]
             r == Power[d]
             W == Power[t]
             l == y % W
             g == y \div W
             e == l \div p
             f == q * (r * g)
  <1>0. d \in Nat /\ s + n \in Nat /\ (s + n) + d = t
    OBVIOUS
  <1> HIDE DEF d
  <1>1. p \in Nat \ {0} /\ q \in Nat \ {0} /\ r \in Nat \ {0} /\ W \in Nat \ {0}
    BY <1>0, PowerIn
  <1>2. W = p * (q * r)
    <2>1. Power[(s + n) + d] = Power[s + n] * r /\ Power[s + n] = p * q
      BY <1>0, PowerSum
    <2>2. (p * q) * r = p * (q * r)
      BY <1>1
    <2> QED BY <1>0, <2>1, <2>2
  <1> HIDE DEF p, q, r, W
  <1>3. y = W * g + l /\ l \in 0..(W - 1) /\ g \in Nat
    BY <1>1, DivMod
  <1>4. l \in Nat /\ r * g \in Nat /\ f \in Nat
    BY <1>1, <1>3
  <1>5. e \in Nat
    BY <1>1, <1>4, DivMod
  <1>6. y = l + p * f
    <2>1. (p * (q * r)) * g = p * (q * (r * g))
      BY <1>1, <1>3
    <2> QED BY <1>1, <1>2, <1>3, <1>4, <2>1
  <1> DEFINE h == r * g
  <1>7. h \in Nat /\ f = q * h
    BY <1>4
  <1> HIDE DEF l, g, e, f, h
  <1>8. (l + p * f) \div p = l \div p + f
    BY <1>1, <1>4, ModMultiple
  <1>9. (e + q * h) % q = e % q
    BY <1>1, <1>5, <1>7, ModMultiple
  <1>10. y \div p = e + f
    BY <1>6, <1>8 DEF e
  <1>11. (y \div p) % q = e % q
    BY <1>7, <1>9, <1>10
  <1> QED BY <1>11 DEF e, l, p, q, W

LEMMA BitsIs ==
  ASSUME NEW x \in Nat, x < Whole(K), NEW n \in 1..3, NEW k \in Nat
  PROVE  Bits(ScalarLimbs(x), n, k) = (x \div Power[n * k]) % Power[n]
  <1> DEFINE from == (n * k) \div ScalarBits
             shift == (n * k) % ScalarBits
             rest == ScalarBits - shift
             s == ScalarLimbs(x)
             limb(i) == IF i < K THEN s[i] ELSE 0
             y == x \div Power[ScalarBits * from]
             A == limb(from)
             B == limb(from + 1)
             p == Power[shift]
             q == Power[rest]
  <1>1. ScalarBits \in Nat \ {0, 1} /\ K \in Nat /\ n * k \in Nat /\ ScBase = Power[ScalarBits]
    BY SizesAre
  <1>2. n * k = ScalarBits * from + shift /\ shift \in 0..(ScalarBits - 1) /\ from \in Nat
    BY <1>1, DivMod
  <1>3. rest \in Nat /\ shift + rest = ScalarBits /\ shift \in Nat /\ ScalarBits * from \in Nat /\ from + 1 \in Nat
    BY <1>1, <1>2
  <1>4. ASSUME NEW i \in Nat PROVE limb(i) = (x \div Power[ScalarBits * i]) % Power[ScalarBits]
    <2>1. CASE i < K
      <3>1. i \in 0..(K - 1)
        BY <1>1, <2>1
      <3>2. s[i] = (x \div Power[ScalarBits * i]) % Power[ScalarBits]
        BY <1>1, <3>1, LimbsAreCut DEF ScalarLimbs
      <3> QED BY <2>1, <3>2
    <2>2. CASE ~ (i < K)
      <3>1. ScalarBits * i \in Nat /\ ScalarBits * K \in Nat /\ ScalarBits * K <= ScalarBits * i
        <4>1. K <= i
          BY <1>1, <2>2
        <4> QED BY <1>1, <4>1, TimesKeeps
      <3>2. Power[ScalarBits * K] <= Power[ScalarBits * i]
        BY <3>1, PowerGrows
      <3> DEFINE b == Power[ScalarBits * i]
                 c == Power[ScalarBits]
      <3>3. b \in Nat \ {0} /\ c \in Nat \ {0} /\ x < b
        <4>1. Whole(K) \in Nat
          BY IndexesAre
        <4> QED BY <1>1, <3>1, <3>2, <4>1, PowerIn DEF Whole
      <3> HIDE DEF b, c
      <3>4. x \div b = 0
        <4>1. x = b * 0 + x /\ x \in 0..(b - 1) /\ 0 \in Nat
          BY <3>3
        <4> QED BY <3>3
      <3>5. 0 % c = 0
        BY <3>3
      <3> QED BY <2>2, <3>4, <3>5 DEF b, c
    <2> QED BY <2>1, <2>2
  <1>5. Bits(s, n, k) = ((A \div p) + q * B) % Power[n]
    BY DEF Bits
  <1> HIDE DEF from, s, limb
  <1>6. A = y % Power[ScalarBits] /\ B = (y \div Power[ScalarBits]) % Power[ScalarBits] /\ y \in Nat
    <2> DEFINE u == Power[ScalarBits * from]
               c == Power[ScalarBits]
    <2>1. u \in Nat \ {0} /\ c \in Nat \ {0} /\ Power[ScalarBits * (from + 1)] = u * c
      BY <1>1, <1>2, PlaceIs
    <2>2. A = (x \div u) % c /\ B = (x \div (u * c)) % c
      BY <1>2, <1>3, <1>4, <2>1
    <2> HIDE DEF u, c, A, B
    <2>3. x \div (u * c) = (x \div u) \div c
      BY <2>1, DivDiv
    <2>4. x \div u \in Nat
      BY <2>1, DivMod
    <2> QED BY <2>2, <2>3, <2>4 DEF u, c
  <1>7. x \div Power[n * k] = y \div p
    <2>1. Power[ScalarBits * from + shift] = Power[ScalarBits * from] * p
      BY <1>3, PowerSum
    <2>2. Power[ScalarBits * from] \in Nat \ {0} /\ p \in Nat \ {0}
      BY <1>3, PowerIn
    <2> DEFINE u == Power[ScalarBits * from]
    <2> HIDE DEF u, p
    <2>3. x \div (u * p) = (x \div u) \div p
      BY <2>2, DivDiv DEF u
    <2> QED BY <1>2, <2>1, <2>3 DEF u
  <1>8. (A \div p) + q * B = (y % Power[ScalarBits + ScalarBits]) \div p
    <2> DEFINE c == Power[ScalarBits]
               l == y % (c * c)
    <2>1. c \in Nat \ {0} /\ p \in Nat \ {0} /\ q \in Nat \ {0} /\ c = p * q
      <3>1. Power[shift + rest] = p * q
        BY <1>3, PowerSum
      <3> QED BY <1>1, <1>3, <3>1, PowerIn
    <2>2. Power[ScalarBits + ScalarBits] = c * c
      BY <1>1, PowerSum
    <2> HIDE DEF c, p, q, A, B, y, l
    <2>3. y % (c * c) = (y % c) + c * ((y \div c) % c)
      BY <1>6, <2>1, DivDiv
    <2>4. l = A + c * B
      BY <1>6, <2>3 DEF c, l
    <2>5. A \in Nat /\ B \in Nat
      <3>1. y \div c \in Nat
        BY <1>6, <2>1, DivMod
      <3>2. (y % c) \in 0..(c - 1) /\ ((y \div c) % c) \in 0..(c - 1)
        BY <1>6, <2>1, <3>1, DivMod
      <3> QED BY <1>6, <2>1, <3>2 DEF c
    <2> DEFINE z == q * B
    <2>6. z \in Nat /\ c * B = p * z
      BY <2>1, <2>5
    <2> HIDE DEF z
    <2>7. \A i \in Nat, j \in Nat : (i + p * j) \div p = i \div p + j
      BY <2>1, ModMultiple
    <2>8. (A + p * z) \div p = A \div p + z
      BY <2>5, <2>6, <2>7
    <2> QED BY <2>2, <2>4, <2>6, <2>8 DEF l, z
  <1>9. ((y % Power[ScalarBits + ScalarBits]) \div p) % Power[n] = (y \div p) % Power[n]
    <2> DEFINE w2 == ScalarBits + ScalarBits
    <2>1. shift \in Nat /\ n \in Nat /\ w2 \in Nat /\ shift + n <= w2 /\ y \in Nat
      BY <1>1, <1>2, <1>6
    <2> HIDE DEF w2, y, shift
    <2>2. ((y % Power[w2]) \div Power[shift]) % Power[n] = (y \div Power[shift]) % Power[n]
      BY <2>1, BitsBelow
    <2> QED BY <2>2 DEF w2
  <1> QED BY <1>5, <1>7, <1>8, <1>9 DEF s

(* The digits of a number are its limbs of so many bits, as many as cover  *)
(* the limbs of a scalar.                                                  *)
LEMMA DigitsAre ==
  ASSUME NEW x \in Nat, x < Whole(K), NEW n \in 1..3, NEW len \in Nat, ScalarBits * K <= n * len
  PROVE  /\ ValueOf(LimbsOf(x, len, n), len, n) = x
         /\ x < Power[n * len]
         /\ \A k \in 0..(len - 1) : LimbsOf(x, len, n)[k] = Bits(ScalarLimbs(x), n, k) /\ Bits(ScalarLimbs(x), n, k) \in 0..(Power[n] - 1)
  <1> DEFINE u == LimbsOf(x, len, n)
             W == Power[n * len]
  <1>1. ScalarBits * K \in Nat /\ n * len \in Nat /\ n \in Nat /\ W \in Nat \ {0} /\ Whole(K) \in Nat
    <2>1. ScalarBits \in Nat /\ K \in Nat /\ Whole(K) \in Nat
      BY IndexesAre
    <2>2. n * len \in Nat
      OBVIOUS
    <2> QED BY <2>1, <2>2, PowerIn
  <1>2. x < W
    <2>1. Power[ScalarBits * K] <= W
      BY <1>1, PowerGrows
    <2> QED BY <1>1, <2>1 DEF Whole
  <1>3. ValueOf(u, len, n) = x % W
    BY <1>1, ValueOfLimbs
  <1>4. x % W = x
    <2> HIDE DEF W
    <2> QED BY <1>1, <1>2
  <1>5. ASSUME NEW k \in 0..(len - 1)
        PROVE  u[k] = Bits(ScalarLimbs(x), n, k) /\ u[k] \in 0..(Power[n] - 1)
    <2>1. u \in Cut(len, n) /\ u[k] = (x \div Power[n * k]) % Power[n]
      <3>1. u \in Cut(len, n) /\ \A i \in 0..(len - 1) : u[i] = (x \div Power[n * i]) % Power[n]
        BY <1>1, LimbsAreCut
      <3> HIDE DEF u
      <3> QED BY <3>1
    <2>2. Bits(ScalarLimbs(x), n, k) = (x \div Power[n * k]) % Power[n]
      <3>1. k \in Nat
        OBVIOUS
      <3> QED BY <3>1, BitsIs
    <2> HIDE DEF u
    <2> QED BY <2>1, <2>2 DEF Cut
  <1> QED BY <1>2, <1>3, <1>4, <1>5

LEMMA SmallPowers == Power[1] = 2 /\ Power[2] = 4 /\ Power[3] = 8
  <1>1. /\ Power[0] = 1 /\ Power[0 + 1] = 2 * Power[0]
        /\ Power[1 + 1] = 2 * Power[1] /\ Power[2 + 1] = 2 * Power[2]
    BY PowerIs
  <1> QED BY <1>1

(* The two scalars are told apart in what is interleaved.                  *)
LEMMA InterleaveIs ==
  ASSUME NEW x \in Nat, x < Whole(K), NEW y \in Nat, y < Whole(K),
         NEW b, b = sc25519_2interleave2(ScalarLimbs(x), ScalarLimbs(y))
  PROVE  /\ ValueOf([k \in DOMAIN b |-> b[k] % 4], Pairs, 2) = x
         /\ ValueOf([k \in DOMAIN b |-> b[k] \div 4], Pairs, 2) = y
  <1> DEFINE n == 2
             p == LimbsOf(x, Pairs, n)
             q == LimbsOf(y, Pairs, n)
             u == [k \in DOMAIN b |-> b[k] % 4]
             v == [k \in DOMAIN b |-> b[k] \div 4]
  <1>1. Pairs \in Nat /\ n \in 1..3 /\ ScalarBits * K <= n * Pairs /\ n \in Nat
    <2>1. ScalarBits * K \in Nat
      <3>1. ScalarBits \in Nat /\ K \in Nat
        BY IndexesAre
      <3> QED BY <3>1
    <2> QED BY <2>1 DEF Pairs
  <1>2. DOMAIN b = 0..(Pairs - 1)
        /\ \A k \in 0..(Pairs - 1) : b[k] = Bits(ScalarLimbs(x), n, k) + 4 * Bits(ScalarLimbs(y), n, k)
    BY DEF sc25519_2interleave2
  <1>3. Power[n] = 4
    BY SmallPowers
  <1> HIDE DEF n
  <1>4. /\ ValueOf(p, Pairs, n) = x
        /\ \A k \in 0..(Pairs - 1) : p[k] = Bits(ScalarLimbs(x), n, k) /\ p[k] \in 0..3
    <2>1. /\ ValueOf(p, Pairs, n) = x
          /\ \A k \in 0..(Pairs - 1) : p[k] = Bits(ScalarLimbs(x), n, k) /\ Bits(ScalarLimbs(x), n, k) \in 0..(Power[n] - 1)
      BY <1>1, DigitsAre
    <2> HIDE DEF p
    <2> QED BY <1>3, <2>1
  <1>5. /\ ValueOf(q, Pairs, n) = y
        /\ \A k \in 0..(Pairs - 1) : q[k] = Bits(ScalarLimbs(y), n, k) /\ q[k] \in 0..3
    <2>1. /\ ValueOf(q, Pairs, n) = y
          /\ \A k \in 0..(Pairs - 1) : q[k] = Bits(ScalarLimbs(y), n, k) /\ Bits(ScalarLimbs(y), n, k) \in 0..(Power[n] - 1)
      BY <1>1, DigitsAre
    <2> HIDE DEF q
    <2> QED BY <1>3, <2>1
  <1> HIDE DEF p, q
  <1>6. \A k \in 0..(Pairs - 1) : /\ u[k] \in Int /\ u[k] = p[k] /\ v[k] \in Int /\ v[k] = q[k]
    <2> SUFFICES ASSUME NEW k \in 0..(Pairs - 1)
                 PROVE  u[k] = p[k] /\ v[k] = q[k] /\ p[k] \in Int /\ q[k] \in Int
      OBVIOUS
    <2>1. b[k] = p[k] + 4 * q[k] /\ p[k] \in 0..3 /\ q[k] \in 0..3
      BY <1>2, <1>4, <1>5
    <2>2. u[k] = b[k] % 4 /\ v[k] = b[k] \div 4
      BY <1>2
    <2> HIDE DEF u, v
    <2> QED BY <2>1, <2>2
  <1> HIDE DEF u, v
  <1>7. ValueOf(u, Pairs, n) = x /\ ValueOf(v, Pairs, n) = y
    <2>1. \A k \in 0..(Pairs - 1) : u[k] \in Int /\ u[k] = p[k]
      BY <1>6
    <2>2. \A k \in 0..(Pairs - 1) : v[k] \in Int /\ v[k] = q[k]
      BY <1>6
    <2>3. ValueOf(u, Pairs, n) = ValueOf(p, Pairs, n)
      BY <1>1, <2>1, ValueSame
    <2>4. ValueOf(v, Pairs, n) = ValueOf(q, Pairs, n)
      BY <1>1, <2>2, ValueSame
    <2> QED BY <1>4, <1>5, <2>3, <2>4
  <1> QED BY <1>7 DEF n, u, v

(* The carries that make the digits of three bits signed.                  *)
Lends(c, s) ==
  c[0] = 0 /\ \A k \in 1..(Windows - 1) : c[k] = (Bits(s, 3, k - 1) + c[k - 1] + 4) \div 8

SignedBy(c, s) ==
  [i \in 0..(Windows - 1) |->
     IF i = Windows - 1 THEN Bits(s, 3, i) + c[i] ELSE ((Bits(s, 3, i) + c[i] + 4) % 8) - 4]

LEMMA LendsExist ==
  ASSUME NEW s, Windows \in Nat \ {0}, \A k \in 0..(Windows - 1) : Bits(s, 3, k) \in 0..7
  PROVE  \E c : /\ Lends(c, s) /\ (\A k \in 0..(Windows - 1) : c[k] \in {0, 1})
                /\ sc25519_window3(s) = SignedBy(c, s)
  <1> DEFINE n == Windows - 1
             step == [p \in Nat \X {0, 1} |-> IF p[1] \in 1..n THEN (Bits(s, 3, p[1] - 1) + p[2] + 4) \div 8 ELSE 0]
             IsCarry(g) == g = [i \in 0..(Windows - 1) |-> IF i = 0 THEN 0 ELSE (Bits(s, 3, i - 1) + g[i - 1] + 4) \div 8]
             c == CHOOSE g : IsCarry(g)
  <1>1. n \in Nat
    OBVIOUS
  <1>2. ASSUME NEW k \in 1..n, NEW x \in {0, 1} PROVE (Bits(s, 3, k - 1) + x + 4) \div 8 \in {0, 1}
    <2>1. Bits(s, 3, k - 1) \in 0..7
      BY <1>1
    <2> QED BY <2>1
  <1>3. step \in [Nat \X {0, 1} -> {0, 1}]
    <2> SUFFICES ASSUME NEW p \in Nat \X {0, 1}, p[1] \in 1..n PROVE (Bits(s, 3, p[1] - 1) + p[2] + 4) \div 8 \in {0, 1}
      OBVIOUS
    <2> QED BY <1>2
  <1>4. PICK h : Steps(h, {0, 1}, n, 0, step)
    <2> HIDE DEF step, n
    <2>1. \E h : Steps(h, {0, 1}, n, 0, step)
      BY <1>1, <1>3, StepsExist
    <2> QED BY <2>1
  <1>5. h \in [0..n -> {0, 1}] /\ h[0] = 0 /\ \A k \in 1..n : h[k] = step[<<k, h[k - 1]>>]
    BY <1>4 DEF Steps
  <1>6. ASSUME NEW k \in 1..n PROVE h[k] = (Bits(s, 3, k - 1) + h[k - 1] + 4) \div 8
    <2> DEFINE p == <<k, h[k - 1]>>
    <2>1. k - 1 \in 0..n /\ h[k - 1] \in {0, 1}
      <3>1. k - 1 \in 0..n
        BY <1>1
      <3> QED BY <1>5, <3>1
    <2>2. p \in Nat \X {0, 1} /\ p[1] = k /\ p[2] = h[k - 1]
      BY <2>1
    <2>3. h[k] = step[p]
      BY <1>5
    <2> HIDE DEF p
    <2>4. step[p] = (Bits(s, 3, p[1] - 1) + p[2] + 4) \div 8
      BY <2>2
    <2> HIDE DEF step
    <2> QED BY <2>2, <2>3, <2>4
  <1>7. IsCarry(h)
    <2>1. h = [k \in 0..n |-> h[k]]
      BY <1>5
    <2>2. \A k \in 0..n : h[k] = IF k = 0 THEN 0 ELSE (Bits(s, 3, k - 1) + h[k - 1] + 4) \div 8
      BY <1>5, <1>6
    <2> QED BY <2>1, <2>2
  <1>8. IsCarry(c)
    BY <1>7
  <1>9. sc25519_window3(s) = SignedBy(c, s)
    BY DEF sc25519_window3, SignedBy
  <1> HIDE DEF c
  <1>10. c[0] = 0 /\ \A k \in 1..n : c[k] = (Bits(s, 3, k - 1) + c[k - 1] + 4) \div 8
    BY <1>1, <1>8
  <1> DEFINE S == {0, 1}
  <1>11. \A k \in 0..n : c[k] \in S
    <2>1. \A k \in 1..n : c[k - 1] \in S => c[k] \in S
      BY <1>2, <1>10
    <2>2. c[0] \in S /\ n \in Nat
      BY <1>1, <1>10
    <2> HIDE DEF S, n
    <2> QED BY <2>1, <2>2, Stays
  <1> QED BY <1>9, <1>10, <1>11 DEF Lends

(* The signed digits stand for the scalar, and the top is as small as the  *)
(* others because the scalar is below a third of what fits the limbs.      *)
LEMMA WindowIs ==
  ASSUME NEW x \in 0..(m - 1), NEW w, w = sc25519_window3(ScalarLimbs(x))
  PROVE  ValueOf(w, Windows, 3) = x /\ \A k \in DOMAIN w : w[k] \in -4..3
  <1> DEFINE bits == 3
             n == Windows - 1
             s == ScalarLimbs(x)
             u == LimbsOf(x, Windows, bits)
  <1>1. /\ x \in Nat /\ x < Whole(K) /\ 3 * x < Whole(K) /\ Whole(K) \in Nat
        /\ Windows \in Nat \ {0} /\ n \in Nat /\ Windows = n + 1
        /\ bits \in 1..3 /\ bits \in Nat /\ ScalarBits * K <= bits * Windows /\ ScalarBits * K \in Nat
    <2>1. ScalarBits \in Nat \ {0, 1} /\ K \in Nat \ {0, 1} /\ m \in Nat /\ 3 * m < Whole(K) /\ Whole(K) \in Nat
      BY SizesAre
    <2>2. ScalarBits * K \in Nat /\ 1 <= ScalarBits * K
      <3>1. ScalarBits * 1 <= ScalarBits * K
        BY <2>1, TimesKeeps
      <3> QED BY <2>1, <3>1
    <2>3. x \in Nat /\ x < Whole(K) /\ 3 * x < Whole(K)
      BY <2>1
    <2>4. Windows \in Nat \ {0} /\ ScalarBits * K <= 3 * Windows
      BY <2>2 DEF Windows
    <2> QED BY <2>1, <2>2, <2>3, <2>4
  <1>2. Power[bits] = 8
    BY SmallPowers
  <1> HIDE DEF bits
  <1>3. /\ ValueOf(u, Windows, bits) = x /\ x < Power[bits * Windows]
        /\ \A k \in 0..n : u[k] = Bits(s, bits, k) /\ u[k] \in 0..7
    <2>1. /\ ValueOf(u, Windows, bits) = x /\ x < Power[bits * Windows]
          /\ \A k \in 0..(Windows - 1) : u[k] = Bits(ScalarLimbs(x), bits, k) /\ Bits(ScalarLimbs(x), bits, k) \in 0..(Power[bits] - 1)
      BY <1>1, DigitsAre
    <2> HIDE DEF u
    <2> QED BY <1>2, <2>1
  <1> HIDE DEF u, s
  <1>4. PICK c : /\ Lends(c, s) /\ (\A k \in 0..n : c[k] \in {0, 1})
                 /\ sc25519_window3(s) = SignedBy(c, s)
    <2>1. \A k \in 0..(Windows - 1) : Bits(s, 3, k) \in 0..7
      BY <1>3 DEF bits
    <2> QED BY <1>1, <2>1, LendsExist
  <1>5. /\ DOMAIN w = 0..n
        /\ \A k \in 0..n : w[k] = IF k = n THEN u[k] + c[k] ELSE ((u[k] + c[k] + 4) % 8) - 4
    <2>1. w = SignedBy(c, s)
      BY <1>4 DEF s
    <2> QED BY <1>3, <2>1 DEF SignedBy, bits
  <1>6. c[0] = 0 /\ \A k \in 1..n : c[k] = (u[k - 1] + c[k - 1] + 4) \div 8
    <2>1. \A k \in 1..n : k - 1 \in 0..n
      BY <1>1
    <2> QED BY <1>3, <1>4, <2>1 DEF Lends, bits
  <1>7. ASSUME NEW k \in 0..(n - 1)
        PROVE  w[k] \in -4..3 /\ w[k] = u[k] + c[k] - 8 * c[k + 1] /\ c[k + 1] \in {0, 1} /\ c[k] \in {0, 1}
    <2>1. k \in 0..n /\ k # n /\ k + 1 \in 1..n /\ (k + 1) - 1 = k /\ k + 1 \in 0..n
      BY <1>1
    <2>2. w[k] = ((u[k] + c[k] + 4) % 8) - 4 /\ u[k] \in 0..7 /\ c[k] \in {0, 1} /\ c[k + 1] \in {0, 1}
      BY <1>3, <1>4, <1>5, <2>1
    <2>3. c[k + 1] = (u[k] + c[k] + 4) \div 8
      BY <1>6, <2>1
    <2> DEFINE a == u[k] + c[k] + 4
    <2>4. a \in Nat /\ w[k] = (a % 8) - 4 /\ c[k + 1] = a \div 8 /\ u[k] + c[k] = a - 4
      BY <2>2, <2>3
    <2> HIDE DEF a
    <2>5. a = 8 * (a \div 8) + (a % 8) /\ a % 8 \in 0..7
      BY <2>4
    <2> QED BY <2>2, <2>4, <2>5
  <1>8. w[n] = u[n] + c[n] /\ u[n] \in 0..7 /\ c[n] \in {0, 1}
    BY <1>1, <1>3, <1>4, <1>5
  <1>9. \A k \in 0..n : u[k] \in Int /\ w[k] \in Int /\ c[k] \in Int
    <2> SUFFICES ASSUME NEW k \in 0..n PROVE u[k] \in Int /\ w[k] \in Int /\ c[k] \in Int
      OBVIOUS
    <2>1. k = n \/ k \in 0..(n - 1)
      BY <1>1
    <2>2. u[k] \in Int /\ c[k] \in Int
      BY <1>3, <1>4
    <2>3. CASE k = n
      <3>1. w[n] \in Int
        BY <1>8
      <3> QED BY <2>2, <2>3, <3>1
    <2>4. CASE k \in 0..(n - 1)
      <3>1. w[k] \in Int
        BY <1>7, <2>4
      <3> QED BY <2>2, <3>1
    <2> QED BY <2>1, <2>3, <2>4
  <1> DEFINE Kept(k) == ValueOf(w, k, bits) + c[k] * Power[bits * k] = ValueOf(u, k, bits)
             S == {k \in Nat : k <= n => Kept(k)}
  <1>10. Kept(n)
    <2>1. 0 \in S
      <3>1. ValueOf(w, 0, bits) = 0 /\ ValueOf(u, 0, bits) = 0 /\ Power[bits * 0] = 1
        BY <1>1, ValueZero, PlaceIs
      <3> QED BY <1>6, <3>1
    <2>2. ASSUME NEW k \in Nat, k \in S PROVE k + 1 \in S
      <3> SUFFICES ASSUME k + 1 <= n PROVE Kept(k + 1)
        OBVIOUS
      <3> DEFINE p == Power[bits * k]
                 a == ValueOf(w, k, bits)
                 b == ValueOf(u, k, bits)
      <3>1. Kept(k) /\ k \in 0..(n - 1) /\ k \in 0..n /\ k + 1 \in 0..n
        BY <1>1, <2>2
      <3>2. a \in Int /\ ValueOf(w, k + 1, bits) = a + w[k] * p
        <4>1. \A i \in 0..k : w[i] \in Int
          BY <1>1, <1>9, <3>1
        <4> QED BY <1>1, <4>1, ValueNext
      <3>3. b \in Int /\ ValueOf(u, k + 1, bits) = b + u[k] * p
        <4>1. \A i \in 0..k : u[i] \in Int
          BY <1>1, <1>9, <3>1
        <4> QED BY <1>1, <4>1, ValueNext
      <3>4. p \in Nat /\ Power[bits * (k + 1)] = p * 8
        BY <1>1, <1>2, PlaceIs
      <3>5. w[k] = u[k] + c[k] - 8 * c[k + 1] /\ w[k] \in Int /\ u[k] \in Int /\ c[k] \in Int /\ c[k + 1] \in Int
        BY <1>7, <1>9, <3>1
      <3>6. a + c[k] * p = b
        BY <3>1
      <3> DEFINE d == c[k + 1]
                 e == c[k]
                 f == u[k]
                 g == w[k]
      <3> HIDE DEF p, a, b, d, e, f, g
      <3>7. g = f + e - 8 * d /\ g \in Int /\ f \in Int /\ e \in Int /\ d \in Int
        BY <3>5 DEF d, e, f, g
      <3>8. a + e * p = b
        BY <3>6 DEF e
      <3>9. (a + g * p) + d * (p * 8) = b + f * p
        <4>1. g * p = f * p + e * p - 8 * (d * p) /\ d * (p * 8) = 8 * (d * p)
          BY <3>4, <3>7
        <4>2. g * p \in Int /\ f * p \in Int /\ e * p \in Int /\ d * p \in Int
          BY <3>4, <3>7
        <4> QED BY <3>2, <3>3, <3>4, <3>7, <3>8, <4>1, <4>2
      <3> QED BY <3>2, <3>3, <3>4, <3>9 DEF d, f, g
    <2> HIDE DEF S
    <2>3. Nat \subseteq S
      BY <2>1, <2>2, NatInSet
    <2> QED BY <1>1, <2>3 DEF S
  <1>11. ValueOf(w, n + 1, bits) = x
    <2> DEFINE p == Power[bits * n]
               a == ValueOf(w, n, bits)
               b == ValueOf(u, n, bits)
    <2>1. a \in Int /\ ValueOf(w, n + 1, bits) = a + w[n] * p
      BY <1>1, <1>9, ValueNext
    <2>2. b \in Int /\ ValueOf(u, n + 1, bits) = b + u[n] * p
      BY <1>1, <1>9, ValueNext
    <2>3. p \in Nat /\ a + c[n] * p = b
      BY <1>1, <1>10, PlaceIs
    <2> DEFINE e == c[n]
               f == u[n]
               g == w[n]
    <2> HIDE DEF p, a, b, e, f, g
    <2>4. g = f + e /\ f \in Int /\ e \in Int /\ g \in Int
      BY <1>8 DEF e, f, g
    <2>5. a + e * p = b
      BY <2>3 DEF e
    <2>6. g * p = f * p + e * p /\ f * p \in Int /\ e * p \in Int
      BY <2>3, <2>4
    <2>7. a + g * p = b + f * p
      BY <2>1, <2>2, <2>5, <2>6
    <2> QED BY <1>1, <1>3, <2>1, <2>2, <2>7 DEF f, g
  <1>12. w[n] \in -4..3
    <2> DEFINE p == Power[bits * n]
               b == ValueOf(u, n, bits)
               f == u[n]
    <2>1. b \in Int /\ ValueOf(u, n + 1, bits) = b + u[n] * p
      BY <1>1, <1>9, ValueNext
    <2>2. b \in Nat
      <3>1. \A k \in 0..(n - 1) : u[k] \in Nat
        BY <1>1, <1>3
      <3> QED BY <1>1, <3>1, ValueIsNat
    <2>3. p \in Nat \ {0} /\ Power[bits * (n + 1)] = p * 8
      <3>1. p \in Nat \ {0} /\ Power[bits * (n + 1)] = p * Power[bits]
        BY <1>1, PlaceIs
      <3> HIDE DEF p
      <3> QED BY <1>2, <3>1
    <2>4. Power[ScalarBits * K] <= Power[bits * Windows]
      <3>1. bits * Windows \in Nat
        BY <1>1
      <3> QED BY <1>1, <3>1, PowerGrows
    <2>5. 3 * x < p * 8 /\ x = b + f * p /\ f \in 0..7
      BY <1>1, <1>3, <1>8, <2>1, <2>3, <2>4 DEF Whole
    <2> HIDE DEF p, b, f
    <2>6. f <= 2
      <3> SUFFICES ASSUME f >= 3 PROVE FALSE
        BY <2>5
      <3>1. p * 3 <= p * f
        BY <2>3, <2>5, TimesKeeps
      <3>2. p * f = f * p /\ p * f \in Nat
        BY <2>3, <2>5
      <3> QED BY <2>2, <2>3, <2>5, <3>1, <3>2
    <2> QED BY <1>8, <2>5, <2>6 DEF f
  <1>13. \A k \in DOMAIN w : w[k] \in -4..3
    <2> SUFFICES ASSUME NEW k \in 0..n PROVE w[k] \in -4..3
      BY <1>5
    <2>1. k = n \/ k \in 0..(n - 1)
      BY <1>1
    <2> QED BY <1>7, <1>12, <2>1
  <1> QED BY <1>1, <1>11, <1>13 DEF bits

-----------------------------------------------------------------------------
(* A scalar is always the reduced limbs of its value.                      *)
ScalarInv == scalar \in 0..(m - 1) /\ sc = ScalarLimbs(scalar)

LEMMA ScalarInvInit == ScalarInit => ScalarInv
  <1> SUFFICES ASSUME ScalarInit PROVE ScalarInv
    OBVIOUS
  <1>1. PICK x \in Digests : /\ \/ sc = sc25519_from64bytes(x)
                                \/ x < Power[ScalarBits * K] /\ sc = sc25519_from32bytes(x)
                             /\ scalar = x % m
    BY DEF ScalarInit
  <1>2. x \in Nat /\ x < Whole(2 * K) /\ m \in Nat \ {0}
    <2>1. x \in 0..(Whole(2 * K) - 1)
      BY ScalarAssumption DEF Whole
    <2> QED BY <2>1, IndexesAre
  <1>3. sc = ScalarLimbs(x % m)
    BY <1>1, <1>2, DigestIs DEF Whole
  <1>4. x % m \in 0..(m - 1)
    BY <1>2
  <1> QED BY <1>1, <1>3, <1>4 DEF ScalarInv

LEMMA ScalarInvKept == ScalarInv /\ [ScalarStep]_svars => ScalarInv'
  <1> SUFFICES ASSUME ScalarInv, [ScalarStep]_svars PROVE ScalarInv'
    OBVIOUS
  <1>1. m \in Nat \ {0}
    BY IndexesAre
  <1>2. ASSUME NEW y \in 0..(m - 1), AddScalar(y) PROVE ScalarInv'
    <2>1. sc' = ScalarLimbs((scalar + y) % m) /\ scalar' = (scalar + y) % m
      BY <1>2, AddIs DEF AddScalar, ScalarInv, ScalarLimbs
    <2>2. (scalar + y) % m \in 0..(m - 1)
      BY <1>1 DEF ScalarInv
    <2> QED BY <2>1, <2>2 DEF ScalarInv, ScalarLimbs
  <1>3. ASSUME NEW y \in 0..(m - 1), MulScalar(y) PROVE ScalarInv'
    <2>1. sc' = ScalarLimbs((scalar * y) % m) /\ scalar' = (scalar * y) % m
      BY <1>3, MulIs DEF MulScalar, ScalarInv, ScalarLimbs
    <2>2. (scalar * y) % m \in 0..(m - 1)
      <3>1. scalar * y \in Nat
        BY <1>1 DEF ScalarInv
      <3> QED BY <1>1, <3>1
    <2> QED BY <2>1, <2>2 DEF ScalarInv, ScalarLimbs
  <1>4. CASE UNCHANGED svars
    BY <1>4 DEF svars, ScalarInv, ScalarLimbs
  <1> QED BY <1>2, <1>3, <1>4 DEF ScalarStep

(* sc25519.c: every scalar it makes is the right residue, reduced, and the *)
(* digits cut from it stand for it and index the tables of multiples.      *)
LEMMA ReducedFromInv == ScalarInv => ScalarsReduced
  <1> SUFFICES ASSUME ScalarInv PROVE ScalarsReduced
    OBVIOUS
  <1>1. scalar \in 0..(m - 1) /\ sc = ScalarLimbs(scalar) /\ m \in Nat \ {0} /\ m < Whole(K) /\ Whole(K) \in Nat
    BY IndexesAre, SizesAre DEF ScalarInv
  <1>2. sc = LimbsOf(scalar, K, ScalarBits) /\ scalar < m
    BY <1>1 DEF ScalarLimbs
  <1>3. LET w == sc25519_window3(sc)
        IN ValueOf(w, Windows, 3) = scalar /\ \A k \in DOMAIN w : w[k] \in -4..3
    BY <1>1, WindowIs
  <1>4. ASSUME NEW y \in 0..(m - 1)
        PROVE  LET b == sc25519_2interleave2(sc, LimbsOf(y, K, ScalarBits))
               IN /\ ValueOf([k \in DOMAIN b |-> b[k] % 4], Pairs, 2) = scalar
                  /\ ValueOf([k \in DOMAIN b |-> b[k] \div 4], Pairs, 2) = y
    <2>1. scalar \in Nat /\ scalar < Whole(K) /\ y \in Nat /\ y < Whole(K)
      BY <1>1
    <2>2. LimbsOf(y, K, ScalarBits) = ScalarLimbs(y)
      BY DEF ScalarLimbs
    <2> QED BY <1>1, <2>1, <2>2, InterleaveIs
  <1> QED BY <1>2, <1>3, <1>4 DEF ScalarsReduced

(* After any sequence of operations of sc25519.c a scalar is the right one,*)
(* below the group order, and its windows and interleaved bits stand for   *)
(* it: Barrett's reduction subtracts the order often enough.               *)
THEOREM ScalarsAlwaysReduced == ScalarSpec => []ScalarsReduced
  <1>1. ScalarInit => ScalarInv
    BY ScalarInvInit
  <1>2. ScalarInv /\ [ScalarStep]_svars => ScalarInv'
    BY ScalarInvKept
  <1>3. ScalarInv => ScalarsReduced
    BY ReducedFromInv
  <1> QED BY <1>1, <1>2, <1>3, PTL DEF ScalarSpec

-----------------------------------------------------------------------------
(* The arithmetic of fe25519.c.                                            *)
(* The remainders of differences.                                          *)
LEMMA DivModInt ==
  ASSUME NEW n \in Int, NEW b \in Nat \ {0}
  PROVE  n = b * (n \div b) + (n % b) /\ n % b \in 0..(b - 1) /\ n \div b \in Int
  OBVIOUS

LEMMA SameRemainder ==
  ASSUME NEW n \in Int, NEW b \in Nat \ {0}, NEW c \in Int, NEW r \in 0..(b - 1), n = b * c + r
  PROVE  n % b = r
  <1> DEFINE e == n \div b
             s == n % b
  <1>1. n = b * e + s /\ s \in 0..(b - 1) /\ e \in Int
    BY DivModInt
  <1> HIDE DEF e, s
  <1> DEFINE f == e - c
  <1>2. f \in Int /\ b * f = r - s
    <2>1. b * (e - c) = b * e - b * c /\ b * e \in Int /\ b * c \in Int
      BY <1>1
    <2> QED BY <1>1, <2>1
  <1> HIDE DEF f
  <1>3. ~ (f >= 1)
    <2> SUFFICES ASSUME f >= 1 PROVE FALSE
      OBVIOUS
    <2>1. b * 1 <= b * f
      <3>1. f \in Nat
        BY <1>2
      <3> QED BY <3>1, TimesKeeps
    <2> QED BY <1>1, <1>2, <2>1
  <1>4. ~ (f <= -1)
    <2> SUFFICES ASSUME f <= -1 PROVE FALSE
      OBVIOUS
    <2>1. b * 1 <= b * (-f)
      <3>1. -f \in Nat /\ 1 <= -f
        BY <1>2
      <3> QED BY <3>1, TimesKeeps
    <2>2. b * (-f) = -(b * f)
      BY <1>2
    <2> QED BY <1>1, <1>2, <2>1, <2>2
  <1>5. f = 0
    BY <1>2, <1>3, <1>4
  <1>6. r = s
    BY <1>1, <1>2, <1>5
  <1> QED BY <1>6 DEF s

LEMMA WithoutMultiple ==
  ASSUME NEW n \in Int, NEW b \in Nat \ {0}, NEW c \in Int
  PROVE  (n + b * c) % b = n % b
  <1> DEFINE e == n \div b
             s == n % b
             t == n + b * c
             f == e + c
  <1>1. n = b * e + s /\ s \in 0..(b - 1) /\ e \in Int
    BY DivModInt
  <1> HIDE DEF e, s
  <1>2. b * (e + c) = b * e + b * c /\ b * e \in Int /\ b * c \in Int
    BY <1>1
  <1>3. t \in Int /\ f \in Int /\ t = b * f + s
    BY <1>1, <1>2
  <1> HIDE DEF t, f
  <1>4. t % b = s
    BY <1>1, <1>3, SameRemainder
  <1> QED BY <1>4 DEF s, t

LEMMA ModTimes ==
  ASSUME NEW x \in Nat, NEW y \in Nat, NEW b \in Nat \ {0}
  PROVE  ((x % b) * (y % b)) % b = (x * y) % b
  <1> DEFINE d == x \div b
             r == x % b
             e == y \div b
             s == y % b
             c == d * y + r * e
             n == r * s
  <1>1. x = b * d + r /\ r \in Nat /\ d \in Nat /\ y = b * e + s /\ s \in Nat /\ e \in Nat
    <2>1. x = b * d + r /\ r \in 0..(b - 1) /\ d \in Nat /\ y = b * e + s /\ s \in 0..(b - 1) /\ e \in Nat
      BY DivMod
    <2> QED BY <2>1
  <1> HIDE DEF d, r, e, s
  <1>2. x * y = n + b * c
    <2>1. x * y = b * (d * y) + r * y
      BY <1>1
    <2>2. r * y = b * (r * e) + r * s
      BY <1>1
    <2>3. b * (d * y + r * e) = b * (d * y) + b * (r * e) /\ b * (d * y) \in Nat /\ b * (r * e) \in Nat /\ r * s \in Nat
      BY <1>1
    <2> QED BY <2>1, <2>2, <2>3
  <1>3. n \in Int /\ c \in Int
    BY <1>1
  <1> HIDE DEF n, c
  <1>4. (n + b * c) % b = n % b
    BY <1>3, WithoutMultiple
  <1> QED BY <1>2, <1>4 DEF n, r, s
-----------------------------------------------------------------------------
(* The prime and its limbs.                                                *)
Place == Power[LimbBits * (N - 1)]
Full == Half * Place

(* Functions of N limbs, those that are carried, and those that an         *)
(* operation leaves.                                                       *)
Lower(v) == \A k \in 0..(N - 2) : v[k] \in 0..(Base - 1)
Tidy(v) == v \in [Limbs -> Nat] /\ Lower(v)
Small(v) == Tidy(v) /\ v[N - 1] <= Half

LEMMA FieldSizes ==
  /\ N \in Nat \ {0, 1, 2, 3} /\ N - 1 \in Nat /\ N - 2 \in Nat /\ (N - 1) + 1 = N /\ LimbBits \in Nat
  /\ Base \in Nat \ {0} /\ Half \in Nat /\ Half >= 4 /\ Base = 2 * Half /\ Power[LimbBits] = Base
  /\ Place \in Nat \ {0} /\ Full \in Nat \ {0} /\ Power[LimbBits * N] = Base * Place
  /\ C \in Nat \ {0} /\ 2 * C <= Base + 1 /\ C <= Half /\ 3 * C <= Place
  /\ C * (6 * C * N + 2) <= Place
  /\ P = Full - C /\ P \in Nat \ {0} /\ Full = P + C /\ C <= P
  <1>1. N \in Nat /\ N >= 4 /\ LimbBits \in Nat /\ LimbBits >= 3 /\ C \in Nat \ {0} /\ 2 * C <= Base + 1
        /\ C * (6 * C * N + 2) <= Place
    BY FieldAssumption DEF Place
  <1>2. N \in Nat \ {0, 1, 2, 3} /\ N - 1 \in Nat /\ N - 2 \in Nat /\ (N - 1) + 1 = N
    BY <1>1
  <1>3. Base \in Nat \ {0} /\ Half \in Nat \ {0} /\ Base = 2 * Half /\ Power[LimbBits] = Base
    <2>1. LimbBits - 1 \in Nat /\ (LimbBits - 1) + 1 = LimbBits
      BY <1>1
    <2>2. Power[(LimbBits - 1) + 1] = 2 * Power[LimbBits - 1]
      BY <2>1, PowerIs
    <2> QED BY <1>1, <2>1, <2>2, PowerIn DEF Base, Half
  <1>4. Half >= 4
    <2>1. LimbBits - 1 \in Nat /\ 2 <= LimbBits - 1
      BY <1>1
    <2>2. Power[2] <= Power[LimbBits - 1]
      BY <2>1, PowerGrows
    <2> QED BY <2>2, SmallPowers DEF Half
  <1>5. Place \in Nat \ {0} /\ Power[LimbBits * N] = Base * Place
    <2> DEFINE n == N - 1
    <2>1. n \in Nat /\ N = n + 1
      BY <1>2
    <2> HIDE DEF n
    <2>2. Power[LimbBits * n] \in Nat \ {0} /\ Power[LimbBits * (n + 1)] = Power[LimbBits * n] * Power[LimbBits]
      BY <1>1, <2>1, PlaceIs
    <2>3. Place = Power[LimbBits * n]
      BY DEF Place, n
    <2> QED BY <1>3, <2>1, <2>2, <2>3
  <1>6. P = Full - C
    <2> DEFINE a == LimbBits * (N - 1)
               b == LimbBits - 1
    <2>1. a \in Nat /\ b \in Nat /\ N * LimbBits - 1 = a + b
      <3>1. N * LimbBits = LimbBits * (N - 1) + LimbBits /\ LimbBits * (N - 1) \in Nat
        BY <1>1, <1>2
      <3> QED BY <1>1, <3>1
    <2> HIDE DEF a, b
    <2>2. Power[a + b] = Power[a] * Power[b]
      BY <2>1, PowerSum
    <2>3. Power[a] = Place /\ Power[b] = Half
      BY DEF Place, Half, a, b
    <2>4. Place * Half = Half * Place
      BY <1>3, <1>5
    <2> QED BY <2>1, <2>2, <2>3, <2>4 DEF P, Full
  <1>7. C <= Half
    BY <1>1, <1>3
  <1>8. 3 * C <= Place
    <2> DEFINE a == 6 * C * N + 2
    <2>1. a \in Nat /\ 3 <= a
      <3>1. 6 * C * N \in Nat /\ 6 * C * N >= 1
        <4>1. 6 * C \in Nat \ {0} /\ 6 * C * 1 <= 6 * C * N
          <5>1. 6 * C \in Nat \ {0} /\ 1 <= N
            BY <1>1
          <5> QED BY <1>1, <5>1, TimesKeeps
        <4> QED BY <1>1, <4>1
      <3> QED BY <3>1
    <2> HIDE DEF a
    <2>2. C * 3 <= C * a
      BY <1>1, <2>1, TimesKeeps
    <2>3. C * a <= Place
      BY <1>1 DEF a
    <2>4. C * a \in Nat
      BY <1>1, <2>1
    <2> QED BY <1>1, <1>5, <2>2, <2>3, <2>4
  <1>9. Full \in Nat \ {0} /\ 4 * Place <= Full
    <2>1. Place * 4 <= Place * Half
      BY <1>3, <1>4, <1>5, TimesKeeps
    <2>2. Place * Half = Half * Place /\ Place * Half \in Nat
      BY <1>3, <1>5
    <2> QED BY <1>5, <2>1, <2>2 DEF Full
  <1>10. P \in Nat \ {0} /\ Full = P + C /\ C <= P
    BY <1>1, <1>5, <1>6, <1>8, <1>9
  <1> QED BY <1>1, <1>2, <1>3, <1>4, <1>5, <1>6, <1>7, <1>8, <1>9, <1>10

LEMMA ValueTop ==
  ASSUME NEW v, \A k \in Limbs : v[k] \in Int
  PROVE  /\ ValueOf(v, N - 1, LimbBits) \in Int
         /\ Value(v) = ValueOf(v, N - 1, LimbBits) + v[N - 1] * Place
  <1> DEFINE n == N - 1
  <1>1. n \in Nat /\ N = n + 1 /\ LimbBits \in Nat
    BY FieldSizes
  <1>2. \A k \in 0..n : v[k] \in Int
    BY DEF Limbs
  <1> HIDE DEF n
  <1>3. /\ ValueOf(v, n, LimbBits) \in Int
        /\ ValueOf(v, n + 1, LimbBits) = ValueOf(v, n, LimbBits) + v[n] * Power[LimbBits * n]
    BY <1>1, <1>2, ValueNext
  <1> QED BY <1>1, <1>3 DEF Value, Place, n

(* What the limbs below the top are at most.                               *)
LEMMA ValueFull ==
  ASSUME NEW bits \in Nat, NEW n \in Nat, NEW v, \A k \in 0..(n - 1) : v[k] = Power[bits] - 1
  PROVE  ValueOf(v, n, bits) = Power[bits * n] - 1
  <1> DEFINE S == {k \in Nat : k <= n => ValueOf(v, k, bits) = Power[bits * k] - 1}
  <1>1. 0 \in S
    <2>1. ValueOf(v, 0, bits) = 0 /\ Power[bits * 0] = 1
      BY ValueZero, PlaceIs
    <2> QED BY <2>1
  <1>2. ASSUME NEW k \in Nat, k \in S PROVE k + 1 \in S
    <2> SUFFICES ASSUME k + 1 <= n PROVE ValueOf(v, k + 1, bits) = Power[bits * (k + 1)] - 1
      OBVIOUS
    <2> DEFINE p == Power[bits * k]
               b == Power[bits]
    <2>1. p \in Nat \ {0} /\ b \in Nat \ {0} /\ Power[bits * (k + 1)] = p * b
      BY PlaceIs
    <2>2. \A i \in 0..k : v[i] \in Int
      BY PowerIn
    <2>3. ValueOf(v, k + 1, bits) = ValueOf(v, k, bits) + v[k] * Power[bits * k]
      BY <2>2, ValueNext
    <2>4. ValueOf(v, k, bits) = p - 1 /\ v[k] = b - 1
      BY <1>2
    <2> HIDE DEF p, b
    <2>5. (b - 1) * p = p * b - p /\ p * b \in Nat
      BY <2>1
    <2> QED BY <2>1, <2>3, <2>4, <2>5 DEF p
  <1> HIDE DEF S
  <1>3. Nat \subseteq S
    BY <1>1, <1>2, NatInSet
  <1> QED BY <1>3 DEF S

LEMMA ValueWithin ==
  ASSUME NEW bits \in Nat, NEW n \in Nat, NEW c \in Nat, NEW v,
         \A k \in 0..(n - 1) : v[k] \in Nat /\ v[k] <= c * (Power[bits] - 1)
  PROVE  ValueOf(v, n, bits) \in Nat /\ ValueOf(v, n, bits) <= c * (Power[bits * n] - 1)
  <1> DEFINE b == Power[bits] - 1
             u == [k \in 0..(n - 1) |-> b]
             w == [k \in 0..(n - 1) |-> c * b]
  <1>1. b \in Nat /\ c * b \in Nat
    <2>1. b \in Nat
      BY PowerIn
    <2> HIDE DEF b
    <2> QED BY <2>1
  <1>2. \A k \in 0..(n - 1) : v[k] \in Nat /\ w[k] \in Nat /\ v[k] <= w[k]
    BY <1>1
  <1>3. \A k \in 0..(n - 1) : u[k] \in Int /\ w[k] = c * u[k]
    BY <1>1
  <1>4. \A k \in 0..(n - 1) : u[k] = Power[bits] - 1
    OBVIOUS
  <1> HIDE DEF u, w, b
  <1>5. ValueOf(v, n, bits) <= ValueOf(w, n, bits)
    BY <1>2, ValueGrows
  <1>6. ValueOf(w, n, bits) = c * ValueOf(u, n, bits)
    BY <1>3, ValueTimes
  <1>7. ValueOf(u, n, bits) = Power[bits * n] - 1
    BY <1>4, ValueFull
  <1>8. \A k \in 0..(n - 1) : v[k] \in Nat
    BY <1>2
  <1>9. ValueOf(v, n, bits) \in Nat
    BY <1>8, ValueIsNat
  <1> QED BY <1>5, <1>6, <1>7, <1>9

-----------------------------------------------------------------------------
(* A pass takes the prime away as often as 2^255 is above the top limb.    *)
LEMMA PassIs ==
  ASSUME NEW v \in [Limbs -> Nat]
  PROVE  LET t == v[N - 1] \div Half
         IN /\ Tidy(Pass(v)) /\ t \in Nat
            /\ Value(Pass(v)) \in Nat /\ Value(v) = Value(Pass(v)) + P * t
            /\ Value(Pass(v)) = ValueOf(v, N - 1, LimbBits) + C * t + (v[N - 1] % Half) * Place
  <1> DEFINE t == v[N - 1] \div Half
             e == v[N - 1] % Half
             low == ValueOf(v, N - 1, LimbBits)
             u == [v EXCEPT ![0] = @ + C * t, ![N - 1] = @ % Half]
             r == Pass(v)
             n == N - 1
             one == [k \in 0..(n - 1) |-> IF k = 0 THEN C * t ELSE 0]
  <1>1. /\ n \in Nat /\ N = n + 1 /\ n >= 3 /\ LimbBits \in Nat /\ Half \in Nat \ {0} /\ Place \in Nat \ {0} /\ C \in Nat /\ P \in Nat
        /\ Full = P + C /\ Full = Half * Place /\ Base = Power[LimbBits] /\ Place = Power[LimbBits * n]
    <2>1. N \in Nat \ {0, 1, 2, 3} /\ LimbBits \in Nat /\ Half \in Nat /\ Half >= 4 /\ Place \in Nat \ {0} /\ C \in Nat \ {0} /\ P \in Nat \ {0}
      BY FieldSizes
    <2> QED BY <2>1, FieldSizes DEF Full, Place
  <1>2. Limbs = 0..n
    BY DEF Limbs
  <1>3. r = Carried(u, Base)
    BY DEF Pass
  <1> HIDE DEF n, r
  <1>4. v[n] \in Nat /\ t = v[n] \div Half /\ e = v[n] % Half
    BY <1>1, <1>2 DEF n
  <1>5. v[n] = Half * t + e /\ e \in 0..(Half - 1) /\ t \in Nat /\ C * t \in Nat
    <2> DEFINE a == v[n]
    <2>1. a \in Nat
      BY <1>4
    <2> HIDE DEF a
    <2>2. a = Half * (a \div Half) + (a % Half) /\ a % Half \in 0..(Half - 1) /\ a \div Half \in Nat
      BY <1>1, <2>1, DivMod
    <2>3. v[n] = Half * t + e /\ e \in 0..(Half - 1) /\ t \in Nat
      BY <1>4, <2>2 DEF a
    <2> HIDE DEF t
    <2> QED BY <1>1, <2>3
  <1> HIDE DEF t, e
  <1>6. DOMAIN u = 0..n /\ u[0] = v[0] + C * t /\ u[n] = e /\ \A k \in 1..(n - 1) : u[k] = v[k]
    <2>1. u = [v EXCEPT ![0] = v[0] + C * t, ![n] = e]
      BY <1>1, <1>2 DEF e, n
    <2> HIDE DEF u
    <2> QED BY <1>1, <1>2, <2>1
  <1> HIDE DEF u
  <1>7. \A k \in 0..n : u[k] \in Nat
    <2> SUFFICES ASSUME NEW k \in 0..n PROVE u[k] \in Nat
      OBVIOUS
    <2>1. v[k] \in Nat /\ v[0] \in Nat
      BY <1>1, <1>2
    <2>2. k = 0 \/ k = n \/ k \in 1..(n - 1)
      BY <1>1
    <2> QED BY <1>5, <1>6, <2>1, <2>2
  <1>8. /\ DOMAIN r = 0..n
        /\ \A k \in 0..n : r[k] \in Nat
        /\ \A k \in 0..(n - 1) : r[k] \in 0..(Base - 1)
        /\ ValueOf(r, n + 1, LimbBits) = ValueOf(u, n + 1, LimbBits)
    BY <1>1, <1>3, <1>6, <1>7, CarriedIs
  <1>9. r = [k \in 0..n |-> r[k]]
    <2>1. r = [k \in DOMAIN u |-> r[k]]
      BY <1>3 DEF Carried
    <2> QED BY <1>6, <2>1
  <1>10. Tidy(r)
    <2>1. r \in [0..n -> Nat]
      BY <1>8, <1>9
    <2>2. N - 2 = n - 1
      BY <1>1
    <2> QED BY <1>2, <1>8, <2>1, <2>2 DEF Tidy, Lower
  <1>11. ValueOf(u, n, LimbBits) = low + C * t
    <2>1. \A k \in 0..(n - 1) : v[k] \in Int /\ one[k] \in Int /\ u[k] = v[k] + one[k]
      <3> SUFFICES ASSUME NEW k \in 0..(n - 1) PROVE v[k] \in Int /\ one[k] \in Int /\ u[k] = v[k] + one[k]
        OBVIOUS
      <3>1. v[k] \in Nat
        BY <1>1, <1>2
      <3>2. CASE k = 0
        BY <1>5, <1>6, <3>1, <3>2
      <3>3. CASE k # 0
        BY <1>5, <1>6, <3>1, <3>3
      <3> QED BY <3>2, <3>3
    <2> DEFINE l == n - 1
    <2>2. one[0] = C * t /\ l \in Nat /\ l + 1 = n /\ \A k \in 1..l : one[k] = 0
      BY <1>1
    <2> HIDE DEF one, l
    <2> DEFINE c == C * t
    <2>3. c \in Int /\ one[0] = c
      BY <1>5, <2>2
    <2> HIDE DEF c
    <2>4. ValueOf(one, l + 1, LimbBits) = c
      BY <1>1, <2>2, <2>3, ValueLowest
    <2>5. ValueOf(u, n, LimbBits) = ValueOf(v, n, LimbBits) + ValueOf(one, n, LimbBits)
      BY <1>1, <2>1, ValueAdds
    <2> QED BY <2>2, <2>4, <2>5 DEF c, n
  <1>12. low \in Nat
    <2>1. \A k \in 0..(n - 1) : v[k] \in Nat
      BY <1>1, <1>2
    <2>2. ValueOf(v, n, LimbBits) \in Nat
      BY <1>1, <2>1, ValueIsNat
    <2> QED BY <2>2 DEF n
  <1>13. Value(v) = low + v[n] * Place
    <2>1. \A k \in Limbs : v[k] \in Int
      OBVIOUS
    <2> QED BY <2>1, ValueTop DEF n
  <1>14. Value(u) = low + C * t + e * Place
    <2>1. \A k \in Limbs : u[k] \in Int
      BY <1>2, <1>7
    <2> QED BY <1>6, <1>11, <2>1, ValueTop DEF n
  <1>15. Value(r) = Value(u)
    BY <1>1, <1>8 DEF Value
  <1> HIDE DEF low
  <1>16. Value(v) = Value(r) + P * t /\ Value(r) \in Nat
    <2> DEFINE a == Half * (t * Place)
               b == e * Place
    <2>1. v[n] * Place = a + b /\ a \in Nat /\ b \in Nat
      BY <1>1, <1>5
    <2>2. a = (P + C) * t
      <3>1. Half * (t * Place) = (Half * Place) * t
        BY <1>1, <1>5
      <3> QED BY <1>1, <3>1
    <2>3. (P + C) * t = P * t + C * t /\ P * t \in Nat
      BY <1>1, <1>5
    <2> HIDE DEF a, b
    <2>4. Value(r) = low + C * t + b
      BY <1>14, <1>15 DEF b
    <2> QED BY <1>5, <1>12, <1>13, <2>1, <2>2, <2>3, <2>4
  <1> QED BY <1>5, <1>10, <1>14, <1>15, <1>16 DEF e, low, n, r, t

LEMMA TidyValue ==
  ASSUME NEW v, Tidy(v)
  PROVE  LET low == ValueOf(v, N - 1, LimbBits)
         IN /\ v \in [Limbs -> Nat] /\ low \in Nat /\ low < Place /\ v[N - 1] \in Nat
            /\ Value(v) \in Nat /\ Value(v) = low + v[N - 1] * Place
  <1> DEFINE n == N - 1
             low == ValueOf(v, n, LimbBits)
  <1>1. n \in Nat /\ N - 2 = n - 1 /\ LimbBits \in Nat /\ Base = Power[LimbBits] /\ Place = Power[LimbBits * n] /\ Place \in Nat
    <2>1. N \in Nat \ {0, 1, 2, 3} /\ LimbBits \in Nat /\ Place \in Nat \ {0}
      BY FieldSizes
    <2> QED BY <2>1, FieldSizes DEF Place
  <1>2. v \in [Limbs -> Nat] /\ Limbs = 0..n /\ \A k \in 0..(n - 1) : v[k] \in 0..(Power[LimbBits] - 1)
    BY <1>1 DEF Tidy, Lower, Limbs
  <1>3. Value(v) = ValueOf(v, N - 1, LimbBits) + v[N - 1] * Place
    <2>1. \A k \in Limbs : v[k] \in Int
      BY <1>2
    <2> QED BY <2>1, ValueTop
  <1> HIDE DEF n
  <1>4. low \in 0..(Power[LimbBits * n] - 1)
    BY <1>1, <1>2, ValueBelow
  <1>5. v[n] \in Nat
    BY <1>1, <1>2
  <1>6. low \in Nat /\ low < Place
    <2> HIDE DEF low
    <2> QED BY <1>1, <1>4
  <1>7. Value(v) = low + v[n] * Place
    BY <1>3 DEF n
  <1>8. Value(v) \in Nat
    <2> HIDE DEF low
    <2> QED BY <1>1, <1>5, <1>6, <1>7
  <1> QED BY <1>2, <1>5, <1>6, <1>7, <1>8 DEF n

(* What is below 2^255 is as it was after a pass, up to its limbs.         *)
LEMMA PassKeeps ==
  ASSUME NEW v, Tidy(v), Value(v) < Full
  PROVE  Tidy(Pass(v)) /\ Value(Pass(v)) = Value(v)
  <1> DEFINE h == v[N - 1]
             t == h \div Half
             low == ValueOf(v, N - 1, LimbBits)
             A == Value(v)
             B == Value(Pass(v))
  <1>1. v \in [Limbs -> Nat] /\ low \in Nat /\ h \in Nat /\ A = low + h * Place
    BY TidyValue
  <1>2. Tidy(Pass(v)) /\ B \in Nat /\ A = B + P * t /\ t \in Nat
    BY <1>1, PassIs
  <1>3. Half \in Nat \ {0} /\ Place \in Nat \ {0} /\ Full = Half * Place /\ P \in Nat
    BY FieldSizes DEF Full
  <1> HIDE DEF low, A, B, h, t
  <1>4. h < Half
    <2> SUFFICES ASSUME Half <= h PROVE FALSE
      BY <1>1, <1>3
    <2>1. Place * Half <= Place * h
      BY <1>1, <1>3, TimesKeeps
    <2>2. Place * Half = Full /\ Place * h = h * Place /\ h * Place \in Nat /\ Full \in Nat
      BY <1>1, <1>3
    <2>3. A < Full
      BY DEF A
    <2> QED BY <1>1, <2>1, <2>2, <2>3
  <1>5. t = 0
    <2>1. h = Half * 0 + h /\ h \in 0..(Half - 1)
      BY <1>1, <1>3, <1>4
    <2>2. h \div Half = 0
      BY <1>1, <1>3, <2>1, DivModIs
    <2> QED BY <2>2 DEF t
  <1> QED BY <1>2, <1>3, <1>5 DEF A, B

(* And what is a little above it is below it.                              *)
LEMMA PassCuts ==
  ASSUME NEW v, Tidy(v), v[N - 1] <= Half + 2
  PROVE  /\ Tidy(Pass(v)) /\ Value(Pass(v)) \in Nat /\ Value(Pass(v)) < Full
         /\ \E t \in Nat : Value(v) = Value(Pass(v)) + P * t
  <1> DEFINE h == v[N - 1]
             t == h \div Half
             e == h % Half
             low == ValueOf(v, N - 1, LimbBits)
             A == Value(v)
             B == Value(Pass(v))
  <1>1. v \in [Limbs -> Nat] /\ low \in Nat /\ low < Place /\ h \in Nat /\ A = low + h * Place
    BY TidyValue
  <1>2. Tidy(Pass(v)) /\ B \in Nat /\ A = B + P * t /\ t \in Nat /\ B = low + C * t + e * Place
    BY <1>1, PassIs
  <1>3. Half \in Nat /\ Half >= 4 /\ Place \in Nat \ {0} /\ Full = Half * Place /\ P \in Nat /\ C \in Nat /\ 3 * C <= Place
    BY FieldSizes DEF Full
  <1>4. h <= Half + 2
    BY DEF h
  <1> HIDE DEF low, A, B, h, t, e
  <1>5. CASE h < Half
    <2>1. h = Half * 0 + h /\ h \in 0..(Half - 1) /\ Half \in Nat \ {0}
      BY <1>1, <1>3, <1>5
    <2>2. h \div Half = 0 /\ h % Half = h
      BY <1>1, <2>1, DivModIs
    <2>3. t = 0 /\ e = h
      BY <2>2 DEF t, e
    <2>4. Place * (h + 1) <= Place * Half
      <3>1. h + 1 \in Nat /\ h + 1 <= Half
        BY <1>1, <1>3, <1>5
      <3> QED BY <1>3, <3>1, TimesKeeps
    <2>5. Place * (h + 1) = h * Place + Place /\ Place * Half = Full /\ h * Place \in Nat /\ Full \in Nat
      BY <1>1, <1>3
    <2>6. B < Full
      BY <1>1, <1>2, <1>3, <2>3, <2>4, <2>5
    <2> QED BY <1>2, <2>6 DEF A, B
  <1>6. CASE Half <= h
    <2> DEFINE d == h - Half
    <2>1. d \in 0..2 /\ h = Half + d
      BY <1>1, <1>3, <1>4, <1>6
    <2> HIDE DEF d
    <2>2. h = Half * 1 + d /\ d \in 0..(Half - 1) /\ Half \in Nat \ {0}
      BY <1>3, <2>1
    <2>3. h \div Half = 1 /\ h % Half = d
      BY <1>1, <2>2, DivModIs
    <2>4. t = 1 /\ e = d
      BY <2>3 DEF t, e
    <2>5. d * Place <= 2 * Place /\ d * Place \in Nat
      <3>1. d = 0 \/ d = 1 \/ d = 2
        BY <2>1
      <3> QED BY <1>3, <3>1
    <2>6. 4 * Place <= Full
      <3>1. Place * 4 <= Place * Half
        BY <1>3, TimesKeeps
      <3> QED BY <1>3, <3>1
    <2>7. Full \in Nat
      BY <1>3
    <2>8. B < Full
      BY <1>1, <1>2, <1>3, <2>4, <2>5, <2>6, <2>7
    <2> QED BY <1>2, <2>8 DEF A, B
  <1> QED BY <1>1, <1>3, <1>5, <1>6

(* The limb at the top of what is below 2^255.                             *)
LEMMA TopBelow ==
  ASSUME NEW v, Tidy(v), NEW c \in Nat, Value(v) < c * Place
  PROVE  v[N - 1] < c
  <1> DEFINE h == v[N - 1]
             low == ValueOf(v, N - 1, LimbBits)
             A == Value(v)
  <1>1. low \in Nat /\ h \in Nat /\ A = low + h * Place /\ A < c * Place
    BY TidyValue
  <1>2. Place \in Nat
    BY FieldSizes
  <1> HIDE DEF low, A, h
  <1>3. ~ (c <= h)
    <2> SUFFICES ASSUME c <= h PROVE FALSE
      OBVIOUS
    <2>1. Place * c <= Place * h
      BY <1>1, <1>2, TimesKeeps
    <2>2. Place * c = c * Place /\ Place * h = h * Place /\ h * Place \in Nat /\ c * Place \in Nat
      BY <1>1, <1>2
    <2> QED BY <1>1, <2>1, <2>2
  <1>4. h < c
    BY <1>1, <1>3
  <1> QED BY <1>4 DEF h

(* Four passes are enough for sums and differences of small limbs.         *)
LEMMA FourPasses ==
  ASSUME NEW v \in [Limbs -> Nat], \A k \in 0..(N - 2) : v[k] <= 3 * (Base - 1), v[N - 1] <= 3 * Half
  PROVE  LET r == reduce_add_sub(v)
         IN /\ Tidy(r) /\ Value(r) \in Nat /\ Value(r) < Full
            /\ \E t \in Nat : Value(v) = Value(r) + P * t
  <1> DEFINE h == v[N - 1]
             t == h \div Half
             e == h % Half
             low == ValueOf(v, N - 1, LimbBits)
             r1 == Pass(v)
             r2 == Pass(r1)
             r3 == Pass(r2)
             r4 == Pass(r3)
             A == Value(v)
             B == Value(r1)
  <1>1. Tidy(r1) /\ B \in Nat /\ A = B + P * t /\ t \in Nat /\ B = low + C * t + e * Place
    BY PassIs
  <1>2. Half \in Nat /\ Half >= 4 /\ Place \in Nat \ {0} /\ Full = Half * Place /\ P \in Nat /\ C \in Nat /\ 3 * C <= Place
    BY FieldSizes DEF Full
  <1>3. low \in Nat /\ low <= 3 * (Place - 1)
    <2> DEFINE n == N - 1
    <2>1. n \in Nat /\ N - 2 = n - 1 /\ LimbBits \in Nat /\ Base = Power[LimbBits] /\ Place = Power[LimbBits * n]
      <3>1. N \in Nat \ {0, 1, 2, 3} /\ LimbBits \in Nat /\ Base = Power[LimbBits]
        BY FieldSizes
      <3> QED BY <3>1 DEF Place
    <2>2. Limbs = 0..n
      BY DEF Limbs
    <2>3. \A k \in 0..(N - 2) : v[k] <= 3 * (Base - 1)
      OBVIOUS
    <2> HIDE DEF n
    <2>4. \A k \in 0..(n - 1) : v[k] \in Nat /\ v[k] <= 3 * (Power[LimbBits] - 1)
      BY <2>1, <2>2, <2>3
    <2> DEFINE c == 3
    <2>5. c \in Nat /\ \A k \in 0..(n - 1) : v[k] \in Nat /\ v[k] <= c * (Power[LimbBits] - 1)
      BY <2>4
    <2> HIDE DEF c
    <2>6. ValueOf(v, n, LimbBits) \in Nat /\ ValueOf(v, n, LimbBits) <= c * (Power[LimbBits * n] - 1)
      BY <2>1, <2>5, ValueWithin
    <2> QED BY <2>1, <2>6 DEF c, n
  <1>4. h \in Nat /\ h <= 3 * Half
    <2>1. N - 1 \in Limbs
      <3>1. N \in Nat \ {0, 1, 2, 3}
        BY FieldSizes
      <3> QED BY <3>1 DEF Limbs
    <2> QED BY <2>1
  <1> HIDE DEF low, A, B, h
  <1>5. h = Half * t + e /\ e \in Nat /\ e < Half
    <2>1. Half \in Nat \ {0}
      BY <1>2
    <2>2. h = Half * (h \div Half) + (h % Half) /\ h % Half \in 0..(Half - 1)
      BY <1>4, <2>1, DivMod
    <2> HIDE DEF t, e
    <2>3. h = Half * t + e /\ e \in 0..(Half - 1)
      BY <2>2 DEF t, e
    <2> QED BY <1>2, <2>3
  <1> HIDE DEF t, e
  <1>6. t <= 3
    <2>1. Half * t <= Half * 3 /\ Half \in Nat \ {0}
      BY <1>1, <1>2, <1>4, <1>5
    <2> DEFINE c == 3
    <2>2. c \in Nat /\ Half * t <= Half * c
      BY <2>1
    <2> HIDE DEF c
    <2>3. t <= c
      BY <1>1, <2>1, <2>2, TimesOrders
    <2> QED BY <2>3 DEF c
  <1>7. B < (Half + 3) * Place
    <2>1. C * t <= C * 3
      BY <1>1, <1>2, <1>6, TimesKeeps
    <2>2. Place * e <= Place * (Half - 1)
      <3>1. Half - 1 \in Nat /\ e <= Half - 1
        BY <1>2, <1>5
      <3> QED BY <1>2, <1>5, <3>1, TimesKeeps
    <2>3. /\ Place * e = e * Place /\ Place * (Half - 1) = Half * Place - Place
          /\ e * Place \in Nat /\ Half * Place \in Nat /\ C * t \in Nat
          /\ (Half + 3) * Place = Half * Place + 3 * Place
      BY <1>1, <1>2, <1>5
    <2> QED BY <1>1, <1>2, <1>3, <2>1, <2>2, <2>3
  <1>8. r1[N - 1] <= Half + 2
    <2> DEFINE c == Half + 3
               g == r1[N - 1]
    <2>1. c \in Nat /\ Value(r1) < c * Place
      BY <1>2, <1>7 DEF B
    <2> HIDE DEF c, r1
    <2>2. g < c /\ g \in Nat
      BY <1>1, <2>1, TopBelow, TidyValue
    <2> HIDE DEF g
    <2>3. g <= Half + 2
      BY <1>2, <2>2 DEF c
    <2> QED BY <2>3 DEF g
  <1> HIDE DEF r1
  <1>9. Tidy(r2) /\ Value(r2) \in Nat /\ Value(r2) < Full /\ \E s \in Nat : Value(r1) = Value(r2) + P * s
    BY <1>1, <1>8, PassCuts
  <1> HIDE DEF r2
  <1>10. Tidy(r3) /\ Value(r3) = Value(r2)
    BY <1>9, PassKeeps
  <1> HIDE DEF r3
  <1>11. Tidy(r4) /\ Value(r4) = Value(r3)
    BY <1>9, <1>10, PassKeeps
  <1> HIDE DEF r4
  <1>12. r4 = reduce_add_sub(v)
    BY DEF r4, r3, r2, r1, reduce_add_sub
  <1>13. PICK s \in Nat : Value(r1) = Value(r2) + P * s
    BY <1>9
  <1> DEFINE u == t + s
             D == Value(r4)
  <1>14. A = D + P * u /\ u \in Nat
    <2>1. P * (t + s) = P * t + P * s /\ P * t \in Nat /\ P * s \in Nat
      BY <1>1, <1>2
    <2>2. D \in Nat /\ B = D + P * s
      BY <1>9, <1>10, <1>11, <1>13 DEF B
    <2> QED BY <1>1, <2>1, <2>2
  <1>15. Value(v) = Value(r4) + P * u /\ u \in Nat
    BY <1>14 DEF A
  <1> QED BY <1>9, <1>10, <1>11, <1>12, <1>15

(* Limbs of what is below 2^255 are those of an operand.                   *)
LEMMA SmallBelow ==
  ASSUME NEW v, Tidy(v), Value(v) < Full
  PROVE  Small(v) /\ v[N - 1] < Half
  <1>1. Half \in Nat /\ Value(v) < Half * Place
    BY FieldSizes DEF Full
  <1>2. v[N - 1] < Half
    BY <1>1, TopBelow
  <1>3. v[N - 1] \in Nat
    BY TidyValue
  <1>4. v[N - 1] <= Half
    BY <1>1, <1>2, <1>3
  <1> QED BY <1>2, <1>4 DEF Small

LEMMA SmallLimbs ==
  ASSUME NEW v, Small(v)
  PROVE  /\ v \in [Limbs -> Nat] /\ Value(v) \in Nat
         /\ \A k \in 0..(N - 2) : v[k] \in 0..(Base - 1)
         /\ v[N - 1] \in 0..Half
  <1>1. Tidy(v) /\ v[N - 1] <= Half
    BY DEF Small
  <1>2. v \in [Limbs -> Nat] /\ Value(v) \in Nat /\ v[N - 1] \in Nat
    BY <1>1, TidyValue
  <1>3. Half \in Nat
    BY FieldSizes
  <1>4. \A k \in 0..(N - 2) : v[k] \in 0..(Base - 1)
    BY <1>1 DEF Tidy, Lower
  <1> QED BY <1>1, <1>2, <1>3, <1>4

LEMMA TheLimbs == /\ 0 \in Limbs /\ N - 1 \in Limbs /\ \A k \in Limbs : k \in Nat /\ (k = N - 1 \/ k \in 0..(N - 2))
                  /\ \A k \in 0..(N - 2) : k \in Limbs /\ k # N - 1
  <1>1. N \in Nat \ {0, 1, 2, 3}
    BY FieldSizes
  <1> QED BY <1>1 DEF Limbs

LEMMA FieldAddIs ==
  ASSUME NEW x, Small(x), NEW y, Small(y)
  PROVE  LET r == fe25519_add(x, y)
         IN Tidy(r) /\ Value(r) < Full /\ Value(r) % P = (Value(x) + Value(y)) % P
  <1> DEFINE v == [k \in Limbs |-> x[k] + y[k]]
             r == reduce_add_sub(v)
  <1>1. /\ \A k \in Limbs : x[k] \in Nat /\ y[k] \in Nat
        /\ \A k \in 0..(N - 2) : x[k] \in 0..(Base - 1) /\ y[k] \in 0..(Base - 1)
        /\ x[N - 1] \in 0..Half /\ y[N - 1] \in 0..Half
    BY SmallLimbs
  <1>2. Base \in Nat \ {0} /\ Half \in Nat
    BY FieldSizes
  <1>3. v \in [Limbs -> Nat] /\ \A k \in Limbs : v[k] = x[k] + y[k]
    BY <1>1
  <1>4. \A k \in 0..(N - 2) : v[k] <= 3 * (Base - 1)
    <2> SUFFICES ASSUME NEW k \in 0..(N - 2) PROVE v[k] <= 3 * (Base - 1)
      OBVIOUS
    <2> DEFINE a == x[k]
               b == y[k]
    <2>1. a \in 0..(Base - 1) /\ b \in 0..(Base - 1) /\ v[k] = a + b
      <3>1. k \in Limbs
        BY TheLimbs
      <3> QED BY <1>1, <3>1
    <2> HIDE DEF a, b, v
    <2>2. a + b <= 3 * (Base - 1)
      BY <1>2, <2>1
    <2> QED BY <2>1, <2>2
  <1>5. v[N - 1] <= 3 * Half
    <2> DEFINE a == x[N - 1]
               b == y[N - 1]
    <2>1. a \in 0..Half /\ b \in 0..Half /\ v[N - 1] = a + b
      BY <1>1, <1>3, TheLimbs
    <2> HIDE DEF a, b, v
    <2>2. a + b <= 3 * Half
      BY <1>2, <2>1
    <2> QED BY <2>1, <2>2
  <1>6. Value(v) = Value(x) + Value(y)
    <2>1. N \in Nat /\ LimbBits \in Nat
      BY FieldSizes
    <2>2. \A k \in 0..(N - 1) : x[k] \in Int /\ y[k] \in Int /\ v[k] = x[k] + y[k]
      BY <1>1, <1>3 DEF Limbs
    <2> HIDE DEF v
    <2>3. ValueOf(v, N, LimbBits) = ValueOf(x, N, LimbBits) + ValueOf(y, N, LimbBits)
      BY <2>1, <2>2, ValueAdds
    <2> QED BY <2>3 DEF Value
  <1> HIDE DEF v
  <1>7. Tidy(r) /\ Value(r) \in Nat /\ Value(r) < Full /\ \E t \in Nat : Value(v) = Value(r) + P * t
    BY <1>3, <1>4, <1>5, FourPasses
  <1>8. PICK t \in Nat : Value(v) = Value(r) + P * t
    BY <1>7
  <1> DEFINE A == Value(v)
             B == Value(r)
  <1>9. B \in Nat /\ P \in Nat \ {0} /\ A = B + P * t
    BY <1>7, <1>8, FieldSizes
  <1> HIDE DEF A, B
  <1>10. (B + P * t) % P = B % P
    BY <1>9, ModMultiple
  <1>11. Value(r) % P = (Value(x) + Value(y)) % P
    BY <1>6, <1>9, <1>10 DEF A, B
  <1>12. r = fe25519_add(x, y)
    BY DEF r, v, fe25519_add
  <1> QED BY <1>7, <1>11, <1>12

(* The limbs of the prime.                                                 *)
Prime == [k \in Limbs |-> PLimb(k)]

LEMMA PrimeLimbs ==
  /\ Prime \in [Limbs -> Nat] /\ \A k \in Limbs : Prime[k] = PLimb(k)
  /\ Prime[N - 1] = Half - 1
  /\ \A k \in 0..(N - 2) : 2 * Prime[k] >= Base - 1 /\ Prime[k] <= Base - 1
  <1>1. Base \in Nat \ {0} /\ Half \in Nat /\ Half >= 4 /\ Base = 2 * Half /\ C \in Nat \ {0} /\ 2 * C <= Base + 1 /\ C <= Half
    BY FieldSizes
  <1>2. \A k \in Limbs : PLimb(k) \in Nat
    BY <1>1 DEF PLimb
  <1>3. Prime \in [Limbs -> Nat] /\ \A k \in Limbs : Prime[k] = PLimb(k)
    BY <1>2 DEF Prime
  <1>4. N \in Nat \ {0, 1, 2, 3}
    BY FieldSizes
  <1>5. PLimb(N - 1) = Half - 1
    BY <1>4 DEF PLimb
  <1>6. \A k \in 0..(N - 2) : 2 * PLimb(k) >= Base - 1 /\ PLimb(k) <= Base - 1
    <2> SUFFICES ASSUME NEW k \in 0..(N - 2) PROVE 2 * PLimb(k) >= Base - 1 /\ PLimb(k) <= Base - 1
      OBVIOUS
    <2>1. k # N - 1
      BY <1>4
    <2>2. PLimb(k) = Base - C \/ PLimb(k) = Base - 1
      BY <2>1 DEF PLimb
    <2> QED BY <1>1, <2>2
  <1> QED BY <1>3, <1>5, <1>6, TheLimbs

LEMMA PrimeIs == Value(Prime) = P
  <1> DEFINE n == N - 1
             l == n - 1
             u == [k \in 0..(n - 1) |-> Base - 1]
             one == [k \in 0..(n - 1) |-> IF k = 0 THEN 1 - C ELSE 0]
             c == 1 - C
  <1>1. /\ n \in Nat /\ l \in Nat /\ n = l + 1 /\ N = n + 1 /\ n >= 3 /\ LimbBits \in Nat /\ C \in Nat /\ Base \in Nat /\ Base = Power[LimbBits]
        /\ Place = Power[LimbBits * n] /\ c \in Int
    <2>1. N \in Nat \ {0, 1, 2, 3} /\ LimbBits \in Nat /\ C \in Nat \ {0} /\ Base \in Nat \ {0} /\ Base = Power[LimbBits]
      BY FieldSizes
    <2> QED BY <2>1 DEF Place
  <1>2. \A k \in 0..(n - 1) : u[k] \in Int /\ one[k] \in Int /\ Prime[k] = u[k] + one[k]
    <2> SUFFICES ASSUME NEW k \in 0..(n - 1) PROVE u[k] \in Int /\ one[k] \in Int /\ Prime[k] = u[k] + one[k]
      OBVIOUS
    <2>1. k \in Limbs /\ k # N - 1
      BY <1>1 DEF Limbs
    <2>2. Prime[k] = IF k = 0 THEN Base - C ELSE Base - 1
      BY <2>1, PrimeLimbs DEF PLimb
    <2> QED BY <1>1, <2>2
  <1>3. one[0] = c /\ \A k \in 1..l : one[k] = 0
    BY <1>1
  <1>4. \A k \in 0..(n - 1) : u[k] = Power[LimbBits] - 1
    BY <1>1
  <1> HIDE DEF n, l, u, one
  <1>5. ValueOf(u, n, LimbBits) = Place - 1
    BY <1>1, <1>4, ValueFull
  <1>6. ValueOf(one, n, LimbBits) = c
    <2> HIDE DEF c
    <2>1. ValueOf(one, l + 1, LimbBits) = c
      BY <1>1, <1>3, ValueLowest
    <2> QED BY <1>1, <2>1
  <1>7. ValueOf(Prime, n, LimbBits) = ValueOf(u, n, LimbBits) + ValueOf(one, n, LimbBits)
    BY <1>1, <1>2, ValueAdds
  <1>8. Value(Prime) = ValueOf(Prime, n, LimbBits) + (Half - 1) * Place
    <2>1. \A k \in Limbs : Prime[k] \in Int
      BY PrimeLimbs
    <2> QED BY <2>1, ValueTop, PrimeLimbs DEF n
  <1>9. Half \in Nat /\ Place \in Nat \ {0} /\ P = Half * Place - C
    BY FieldSizes DEF Full
  <1>10. (Half - 1) * Place = Half * Place - Place /\ Half * Place \in Nat
    BY <1>9
  <1>11. Value(Prime) = (Place - 1) + (1 - C) + (Half * Place - Place)
    BY <1>5, <1>6, <1>7, <1>8, <1>10
  <1>12. C \in Nat
    BY <1>1
  <1> DEFINE F == Half * Place
             A == Value(Prime)
  <1>13. F \in Nat /\ A = (Place - 1) + (1 - C) + (F - Place) /\ P = F - C
    BY <1>9, <1>10, <1>11
  <1> HIDE DEF A, F
  <1>14. A = P
    BY <1>9, <1>12, <1>13
  <1> QED BY <1>14 DEF A

LEMMA FieldSubIs ==
  ASSUME NEW x, Small(x), NEW y, Small(y)
  PROVE  LET r == fe25519_sub(x, y)
         IN Tidy(r) /\ Value(r) < Full /\ Value(r) % P = (Value(x) - Value(y)) % P
  <1> DEFINE v == [k \in Limbs |-> x[k] + 2 * PLimb(k) - y[k]]
             r == reduce_add_sub(v)
             p2 == [k \in Limbs |-> 2 * Prime[k]]
             s == [k \in Limbs |-> x[k] + 2 * Prime[k]]
  <1>1. /\ \A k \in Limbs : x[k] \in Nat /\ y[k] \in Nat
        /\ \A k \in 0..(N - 2) : x[k] \in 0..(Base - 1) /\ y[k] \in 0..(Base - 1)
        /\ x[N - 1] \in 0..Half /\ y[N - 1] \in 0..Half
        /\ Value(x) \in Nat /\ Value(y) \in Nat
    BY SmallLimbs
  <1>2. Base \in Nat \ {0} /\ Half \in Nat /\ Half >= 4
    BY FieldSizes
  <1>3. \A k \in Limbs : Prime[k] \in Nat /\ v[k] = x[k] + 2 * Prime[k] - y[k]
    BY PrimeLimbs
  <1>4. \A k \in 0..(N - 2) : v[k] \in Nat /\ v[k] <= 3 * (Base - 1)
    <2> SUFFICES ASSUME NEW k \in 0..(N - 2) PROVE v[k] \in Nat /\ v[k] <= 3 * (Base - 1)
      OBVIOUS
    <2> DEFINE a == x[k]
               b == y[k]
               p == Prime[k]
               w == v[k]
    <2>1. a \in 0..(Base - 1) /\ b \in 0..(Base - 1) /\ p \in Nat /\ w = a + 2 * p - b
      <3>1. k \in Limbs
        BY TheLimbs
      <3> QED BY <1>1, <1>3, <3>1
    <2>2. 2 * p >= Base - 1 /\ p <= Base - 1
      BY PrimeLimbs
    <2> HIDE DEF a, b, p, w
    <2>3. w \in Nat /\ w <= 3 * (Base - 1)
      BY <1>2, <2>1, <2>2
    <2> QED BY <2>3 DEF w
  <1>5. v[N - 1] \in Nat /\ v[N - 1] <= 3 * Half
    <2> DEFINE a == x[N - 1]
               b == y[N - 1]
               p == Prime[N - 1]
               w == v[N - 1]
    <2>1. a \in 0..Half /\ b \in 0..Half /\ w = a + 2 * p - b
      BY <1>1, <1>3, TheLimbs
    <2>2. p = Half - 1
      BY PrimeLimbs
    <2> HIDE DEF a, b, p, w
    <2>3. w \in Nat /\ w <= 3 * Half
      BY <1>2, <2>1, <2>2
    <2> QED BY <2>3 DEF w
  <1>6. v \in [Limbs -> Nat]
    <2>1. \A k \in Limbs : v[k] \in Nat
      BY <1>4, <1>5, TheLimbs
    <2>2. v = [k \in Limbs |-> v[k]]
      OBVIOUS
    <2> HIDE DEF v
    <2> QED BY <2>1, <2>2
  <1>7. N \in Nat /\ LimbBits \in Nat /\ Limbs = 0..(N - 1)
    BY FieldSizes DEF Limbs
  <1>8. Value(v) = Value(x) + 2 * P - Value(y)
    <2>1. \A k \in 0..(N - 1) : v[k] \in Int /\ y[k] \in Int /\ s[k] = v[k] + y[k]
      <3> SUFFICES ASSUME NEW k \in Limbs PROVE v[k] \in Int /\ y[k] \in Int /\ s[k] = v[k] + y[k]
        BY <1>7
      <3> DEFINE a == x[k]
                 b == y[k]
                 p == 2 * Prime[k]
      <3>1. a \in Nat /\ b \in Nat /\ p \in Nat /\ s[k] = a + p /\ v[k] = a + p - b
        BY <1>1, <1>3
      <3> HIDE DEF a, b, p, s, v
      <3>2. v[k] \in Int /\ b \in Int /\ s[k] = v[k] + b
        BY <3>1
      <3> QED BY <3>2 DEF b
    <2>2. \A k \in 0..(N - 1) : x[k] \in Int /\ p2[k] \in Int /\ s[k] = x[k] + p2[k]
      BY <1>1, <1>3, <1>7
    <2>3. \A k \in 0..(N - 1) : Prime[k] \in Int /\ p2[k] = 2 * Prime[k]
      BY <1>3, <1>7
    <2> HIDE DEF v, s, p2
    <2>4. ValueOf(s, N, LimbBits) = ValueOf(v, N, LimbBits) + ValueOf(y, N, LimbBits)
      BY <1>7, <2>1, ValueAdds
    <2>5. ValueOf(s, N, LimbBits) = ValueOf(x, N, LimbBits) + ValueOf(p2, N, LimbBits)
      BY <1>7, <2>2, ValueAdds
    <2>6. ValueOf(p2, N, LimbBits) = 2 * ValueOf(Prime, N, LimbBits)
      <3> DEFINE two == 2
      <3>1. two \in Int /\ \A k \in 0..(N - 1) : Prime[k] \in Int /\ p2[k] = two * Prime[k]
        BY <2>3
      <3> HIDE DEF two
      <3>2. ValueOf(p2, N, LimbBits) = two * ValueOf(Prime, N, LimbBits)
        BY <1>7, <3>1, ValueTimes
      <3> QED BY <3>2 DEF two
    <2>7. Value(v) \in Int
      <3>1. \A k \in Limbs : v[k] \in Nat
        BY <1>6
      <3>2. ValueOf(v, N, LimbBits) \in Nat
        BY <1>7, <3>1, ValueIsNat
      <3> QED BY <3>2 DEF Value
    <2>8. ValueOf(Prime, N, LimbBits) = P /\ P \in Nat
      BY PrimeIs, FieldSizes DEF Value
    <2>9. Value(v) + Value(y) = Value(x) + 2 * P
      BY <2>4, <2>5, <2>6, <2>8 DEF Value
    <2> QED BY <1>1, <2>7, <2>8, <2>9
  <1> HIDE DEF v
  <1>9. Tidy(r) /\ Value(r) \in Nat /\ Value(r) < Full /\ \E t \in Nat : Value(v) = Value(r) + P * t
    BY <1>4, <1>5, <1>6, FourPasses
  <1>10. PICK t \in Nat : Value(v) = Value(r) + P * t
    BY <1>9
  <1> DEFINE A == Value(x) - Value(y)
             B == Value(r)
             u == 2 - t
  <1>11. B \in Int /\ P \in Nat \ {0} /\ u \in Int /\ B = A + P * u /\ A \in Int
    <2>1. P * (2 - t) = 2 * P - P * t /\ P * t \in Nat /\ P \in Nat \ {0}
      BY FieldSizes
    <2> QED BY <1>1, <1>8, <1>9, <1>10, <2>1
  <1> HIDE DEF A, B, u
  <1>12. (A + P * u) % P = A % P
    BY <1>11, WithoutMultiple
  <1>13. Value(r) % P = (Value(x) - Value(y)) % P
    BY <1>11, <1>12 DEF A, B
  <1>14. r = fe25519_sub(x, y)
    BY DEF r, v, fe25519_sub
  <1> QED BY <1>9, <1>13, <1>14

LEMMA FieldNegIs ==
  ASSUME NEW x, Small(x)
  PROVE  LET r == fe25519_neg(x)
         IN Tidy(r) /\ Value(r) < Full /\ Value(r) % P = (-Value(x)) % P
  <1> DEFINE zero == [k \in Limbs |-> 0]
  <1>1. Base \in Nat \ {0} /\ Half \in Nat /\ N \in Nat /\ LimbBits \in Nat
    BY FieldSizes
  <1>2. Small(zero)
    <2>1. zero \in [Limbs -> Nat] /\ \A k \in Limbs : zero[k] = 0
      OBVIOUS
    <2> HIDE DEF zero
    <2>2. zero[N - 1] = 0 /\ \A k \in 0..(N - 2) : zero[k] = 0
      BY <2>1, TheLimbs
    <2> QED BY <1>1, <2>1, <2>2 DEF Small, Tidy, Lower
  <1>3. Value(zero) = 0
    <2>1. \A k \in 0..(N - 1) : zero[k] = 0
      BY DEF Limbs
    <2> HIDE DEF zero
    <2> QED BY <1>1, <2>1, ValueNone DEF Value
  <1> HIDE DEF zero
  <1> DEFINE r == fe25519_sub(zero, x)
  <1>4. Tidy(r) /\ Value(r) < Full /\ Value(r) % P = (Value(zero) - Value(x)) % P
    BY <1>2, FieldSubIs
  <1>5. Value(x) \in Nat
    BY SmallLimbs
  <1>6. 0 - Value(x) = -Value(x)
    BY <1>5
  <1>7. r = fe25519_neg(x)
    BY DEF r, zero, fe25519_neg
  <1> QED BY <1>3, <1>4, <1>6, <1>7

-----------------------------------------------------------------------------
(* A sum of which all but a few terms are none.                            *)
LEMMA TotalFew ==
  ASSUME NEW a \in Nat, NEW c \in Nat, NEW n \in Nat, NEW f,
         \A k \in 0..(n - 1) : f[k] \in Nat /\ f[k] <= c /\ (a <= k => f[k] = 0)
  PROVE  Total(f, n) \in Nat /\ Total(f, n) <= c * a
  <1> DEFINE T == {l \in Nat : l <= n => Total(f, l) \in Nat /\ Total(f, l) <= c * a /\ Total(f, l) <= c * l}
  <1>1. 0 \in T
    <2>1. c * 0 = 0 /\ c * a \in Nat
      OBVIOUS
    <2> HIDE DEF T
    <2>2. Total(f, 0) = 0
      BY TotalZero
    <2>3. Total(f, 0) \in Nat /\ Total(f, 0) <= c * a /\ Total(f, 0) <= c * 0
      BY <2>1, <2>2
    <2> QED BY <2>3 DEF T
  <1>2. ASSUME NEW l \in Nat, l \in T PROVE l + 1 \in T
    <2> SUFFICES ASSUME l + 1 <= n PROVE Total(f, l + 1) \in Nat /\ Total(f, l + 1) <= c * a /\ Total(f, l + 1) <= c * (l + 1)
      OBVIOUS
    <2>1. Total(f, l) \in Nat /\ Total(f, l) <= c * a /\ Total(f, l) <= c * l
      BY <1>2
    <2>2. f[l] \in Nat /\ f[l] <= c /\ (a <= l => f[l] = 0)
      OBVIOUS
    <2>3. \A k \in 0..l : f[k] \in Int
      <3>1. \A k \in 0..l : k \in 0..(n - 1)
        OBVIOUS
      <3> QED BY <3>1
    <2>4. Total(f, l + 1) = Total(f, l) + f[l]
      BY <2>3, TotalNext
    <2> HIDE DEF T
    <2>5. c * (l + 1) = c * l + c /\ c * l \in Nat /\ c * a \in Nat
      OBVIOUS
    <2>6. CASE a <= l
      BY <2>1, <2>2, <2>4, <2>5, <2>6
    <2>7. CASE l + 1 <= a
      <3>1. c * (l + 1) <= c * a
        BY <2>7, TimesKeeps
      <3> QED BY <2>1, <2>2, <2>4, <2>5, <3>1
    <2> QED BY <2>6, <2>7
  <1> HIDE DEF T
  <1>3. Nat \subseteq T
    BY <1>1, <1>2, NatInSet
  <1> QED BY <1>3 DEF T

(* The largest place of a product of small limbs.                          *)
LargestProduct == (Base - 1) * (Base - 1)

LEMMA SmallNumbers ==
  ASSUME NEW x, Small(x)
  PROVE  Numbers(x, N) /\ \A i \in Nat : Limb(x, i) \in 0..(Base - 1) /\ (N <= i => Limb(x, i) = 0)
  <1>1. x \in [Limbs -> Nat] /\ (\A k \in 0..(N - 2) : x[k] \in 0..(Base - 1)) /\ x[N - 1] \in 0..Half
    BY SmallLimbs
  <1>2. N \in Nat /\ Base \in Nat \ {0} /\ Half \in Nat /\ Base = 2 * Half
    BY FieldSizes
  <1>3. DOMAIN x = 0..(N - 1)
    BY <1>1 DEF Limbs
  <1>4. Numbers(x, N)
    BY <1>1, <1>3 DEF Numbers, Limbs
  <1>5. \A k \in Limbs : x[k] \in 0..(Base - 1)
    <2>1. x[N - 1] \in 0..(Base - 1)
      BY <1>1, <1>2
    <2> QED BY <1>1, <2>1, TheLimbs
  <1>6. \A i \in Nat : Limb(x, i) \in 0..(Base - 1) /\ (N <= i => Limb(x, i) = 0)
    <2> SUFFICES ASSUME NEW i \in Nat PROVE Limb(x, i) \in 0..(Base - 1) /\ (N <= i => Limb(x, i) = 0)
      OBVIOUS
    <2>1. CASE N <= i
      <3>1. i \notin DOMAIN x
        BY <1>2, <1>3, <2>1
      <3>2. Limb(x, i) = 0
        BY <3>1 DEF Limb
      <3> QED BY <1>2, <3>2
    <2>2. CASE ~ (N <= i)
      <3>1. i \in DOMAIN x /\ i \in Limbs
        BY <1>2, <1>3, <2>2 DEF Limbs
      <3>2. Limb(x, i) = x[i]
        BY <3>1 DEF Limb
      <3> QED BY <1>5, <2>2, <3>1, <3>2
    <2> QED BY <2>1, <2>2
  <1> QED BY <1>4, <1>6

LEMMA ColumnFew ==
  ASSUME NEW x, Small(x), NEW y, Small(y), NEW k \in Nat
  PROVE  Column(x, y, k) \in Nat /\ Column(x, y, k) <= LargestProduct * N
  <1> DEFINE f == [i \in 0..k |-> Limb(x, i) * Limb(y, k - i)]
             n == k + 1
             b == Base - 1
  <1>1. b \in Nat /\ N \in Nat /\ LargestProduct = b * b
    BY FieldSizes DEF LargestProduct
  <1>2. n \in Nat /\ 0..(n - 1) = 0..k
    OBVIOUS
  <1>3. \A i \in Nat : Limb(x, i) \in 0..b /\ (N <= i => Limb(x, i) = 0)
    BY SmallNumbers
  <1>4. \A i \in Nat : Limb(y, i) \in 0..b
    BY SmallNumbers
  <1>5. \A i \in 0..(n - 1) : f[i] \in Nat /\ f[i] <= LargestProduct /\ (N <= i => f[i] = 0)
    <2> SUFFICES ASSUME NEW i \in 0..k PROVE f[i] \in Nat /\ f[i] <= LargestProduct /\ (N <= i => f[i] = 0)
      BY <1>2
    <2> DEFINE c == Limb(x, i)
               d == Limb(y, k - i)
    <2>1. i \in Nat /\ k - i \in Nat
      OBVIOUS
    <2>2. c \in 0..b /\ (N <= i => c = 0) /\ d \in 0..b /\ f[i] = c * d
      BY <1>3, <1>4, <2>1
    <2> HIDE DEF c, d, f, b
    <2>3. c * d <= c * b
      BY <1>1, <2>2, TimesKeeps
    <2>4. b * c <= b * b
      BY <1>1, <2>2, TimesKeeps
    <2>5. c * b = b * c /\ c * d \in Nat /\ b * b \in Nat /\ b * c \in Nat /\ (c = 0 => c * d = 0)
      BY <1>1, <2>2
    <2> QED BY <1>1, <2>2, <2>3, <2>4, <2>5
  <1>6. Column(x, y, k) = Total(f, n)
    BY DEF Column
  <1>7. LargestProduct \in Nat
    BY <1>1
  <1> HIDE DEF f, n
  <1> QED BY <1>1, <1>2, <1>5, <1>6, <1>7, TotalFew

(* What two passes leave of a product.                                     *)
LEMMA TwoPasses ==
  ASSUME NEW g \in Nat, g = 3 * C * N, NEW v \in [Limbs -> Nat], \A k \in Limbs : v[k] <= (g * (Base - 1)) * (Base - 1)
  PROVE  LET r == reduce_mul(v)
         IN Small(r) /\ \E t \in Nat : Value(v) = Value(r) + P * t
  <1> DEFINE b == Base - 1
             d == g * b
             h == v[N - 1]
             t == h \div Half
             e == h % Half
             low == ValueOf(v, N - 1, LimbBits)
             r1 == Pass(v)
             A == Value(v)
             B == Value(r1)
             h1 == r1[N - 1]
             t1 == h1 \div Half
             e1 == h1 % Half
             low1 == ValueOf(r1, N - 1, LimbBits)
             r2 == Pass(r1)
             D == Value(r2)
  <1>1. Tidy(r1) /\ B \in Nat /\ A = B + P * t /\ t \in Nat /\ B = low + C * t + e * Place
    BY PassIs
  <1>2. Half \in Nat \ {0} /\ Place \in Nat \ {0} /\ Full \in Nat \ {0} /\ Full = Half * Place /\ P \in Nat /\ C \in Nat
    BY FieldSizes DEF Full
  <1>3. b \in Nat /\ b <= 2 * Half /\ N \in Nat /\ C * (6 * C * N + 2) <= Place
    BY FieldSizes
  <1>4. 2 * g = 6 * C * N /\ C * (2 * g + 2) <= Place
    BY <1>2, <1>3
  <1>5. d \in Nat /\ h \in Nat /\ h <= d * b
    <2>1. v[N - 1] \in Nat /\ v[N - 1] <= (g * (Base - 1)) * (Base - 1)
      BY TheLimbs
    <2> HIDE DEF b
    <2>2. d \in Nat
      BY <1>3
    <2> QED BY <2>1, <2>2 DEF b
  <1>6. low \in Nat /\ low <= d * (Place - 1)
    <2> DEFINE n == N - 1
    <2>1. n \in Nat /\ LimbBits \in Nat /\ Base = Power[LimbBits] /\ Place = Power[LimbBits * n]
      <3>1. N \in Nat \ {0, 1, 2, 3} /\ LimbBits \in Nat /\ Base = Power[LimbBits]
        BY FieldSizes
      <3> QED BY <3>1 DEF Place
    <2>2. \A k \in 0..(n - 1) : v[k] \in Nat /\ v[k] <= d * (Base - 1)
      <3>1. \A k \in 0..(n - 1) : k \in Limbs
        BY <2>1 DEF Limbs
      <3> QED BY <3>1
    <2> HIDE DEF n, d
    <2>3. ValueOf(v, n, LimbBits) \in Nat /\ ValueOf(v, n, LimbBits) <= d * (Power[LimbBits * n] - 1)
      BY <1>5, <2>1, <2>2, ValueWithin
    <2> QED BY <2>1, <2>3 DEF n
  <1> HIDE DEF low, A, B, h
  <1>7. h = Half * t + e /\ e \in Nat /\ e <= Half - 1
    <2>1. h = Half * (h \div Half) + (h % Half) /\ h % Half \in 0..(Half - 1)
      BY <1>2, <1>5, DivMod
    <2> HIDE DEF t, e
    <2>2. h = Half * t + e /\ e \in 0..(Half - 1)
      BY <2>1 DEF t, e
    <2> QED BY <1>2, <2>2
  <1> HIDE DEF t, e, b, d
  <1>8. t <= 2 * d
    <2>1. d * b <= d * (2 * Half)
      <3> DEFINE a == 2 * Half
      <3>1. a \in Nat /\ b <= a
        BY <1>2, <1>3
      <3> HIDE DEF a
      <3>2. d * b <= d * a
        BY <1>3, <1>5, <3>1, TimesKeeps
      <3> QED BY <3>2 DEF a
    <2> DEFINE a == 2 * d
    <2>2. a \in Nat /\ d * (2 * Half) = Half * a
      BY <1>2, <1>5
    <2>3. Half * t <= Half * a
      <3>1. Half * t \in Nat /\ d * b \in Nat /\ Half * a \in Nat
        BY <1>1, <1>2, <1>3, <1>5
      <3> QED BY <1>5, <1>7, <2>1, <2>2, <3>1
    <2> HIDE DEF a
    <2>4. t <= a
      BY <1>1, <1>2, <2>2, <2>3, TimesOrders
    <2> QED BY <2>4 DEF a
  <1>9. C * t <= Place * b
    <2>1. C * t <= C * (2 * d)
      <3> DEFINE a == 2 * d
      <3>1. a \in Nat /\ t <= a
        BY <1>5, <1>8
      <3> HIDE DEF a
      <3>2. C * t <= C * a
        BY <1>1, <1>2, <3>1, TimesKeeps
      <3> QED BY <3>2 DEF a
    <2>2. C * (2 * d) = b * (C * (2 * g))
      BY <1>2, <1>3 DEF d
    <2> DEFINE a == C * (2 * g)
    <2>3. a \in Nat /\ a <= Place
      <3>1. C * (2 * g + 2) = C * (2 * g) + 2 * C /\ C * (2 * g) \in Nat
        BY <1>2
      <3> QED BY <1>2, <1>4, <3>1
    <2> HIDE DEF a
    <2>4. b * a <= b * Place
      BY <1>2, <1>3, <2>3, TimesKeeps
    <2>5. C * (2 * d) = b * a
      BY <2>2 DEF a
    <2> DEFINE X == C * t
               Y == b * a
               Z == Place * b
    <2>6. X \in Nat /\ Y \in Nat /\ Z \in Nat
      BY <1>1, <1>2, <1>3, <2>3
    <2>7. X <= Y
      BY <2>1, <2>5
    <2>8. Y <= Z
      <3>1. b * Place = Place * b
        BY <1>2, <1>3
      <3> QED BY <2>4, <3>1
    <2> HIDE DEF X, Y, Z
    <2>9. X <= Z
      BY <2>6, <2>7, <2>8
    <2> QED BY <2>9 DEF X, Z
  <1> DEFINE f == g * (2 * Full)
             c == 2 * g + 3
  <1>10. Place * b <= 2 * Full
    <2> DEFINE a == 2 * Half
    <2>1. a \in Nat /\ b <= a
      BY <1>2, <1>3
    <2> HIDE DEF a
    <2>2. Place * b <= Place * a
      BY <1>2, <1>3, <2>1, TimesKeeps
    <2>3. Place * a = 2 * Full
      BY <1>2 DEF a
    <2> QED BY <2>2, <2>3
  <1>11. low <= f /\ f \in Nat
    <2>1. d * (Place - 1) <= d * Place
      <3>1. Place - 1 \in Nat /\ Place - 1 <= Place
        BY <1>2
      <3> QED BY <1>2, <1>5, <3>1, TimesKeeps
    <2> DEFINE q == Place * b
               w == 2 * Full
    <2>2. d * Place = g * q /\ q \in Nat /\ w \in Nat /\ q <= w
      BY <1>2, <1>3, <1>10 DEF d
    <2> HIDE DEF q, w
    <2>3. g * q <= g * w
      BY <2>2, TimesKeeps
    <2>4. g * w = f /\ g * w \in Nat /\ g * q \in Nat
      BY <2>2 DEF w
    <2>5. d * (Place - 1) \in Nat
      BY <1>2, <1>5
    <2> QED BY <1>6, <2>1, <2>2, <2>3, <2>4, <2>5
  <1>12. e * Place < Full /\ e * Place \in Nat
    <2>1. Half - 1 \in Nat
      BY <1>2
    <2>2. Place * e <= Place * (Half - 1)
      BY <1>2, <1>7, <2>1, TimesKeeps
    <2>3. Place * (Half - 1) = Full - Place /\ Place * e = e * Place /\ e * Place \in Nat
      BY <1>2, <1>7
    <2> QED BY <1>2, <2>2, <2>3
  <1>13. B < c * Full
    <2>1. C * t \in Nat /\ Place * b \in Nat
      BY <1>1, <1>2, <1>3
    <2>2. c * Full = f + 3 * Full
      BY <1>2
    <2> DEFINE X == C * t
               Y == Place * b
               Z == e * Place
               G == c * Full
    <2>3. X \in Nat /\ Y \in Nat /\ Z \in Nat /\ X <= Y /\ Y <= 2 * Full /\ Z < Full /\ B = low + X + Z /\ G = f + 3 * Full
      BY <1>1, <1>9, <1>10, <1>12, <2>1, <2>2
    <2> HIDE DEF f, c, X, Y, Z, G
    <2>4. B < G
      BY <1>1, <1>2, <1>6, <1>11, <2>3
    <2> QED BY <2>4 DEF G

  <1>14. c \in Nat /\ c * Half \in Nat /\ c * Full = (c * Half) * Place
    BY <1>2
  <1> HIDE DEF c, f
  <1>15. /\ r1 \in [Limbs -> Nat] /\ low1 \in Nat /\ low1 < Place /\ h1 \in Nat
    BY <1>1, TidyValue
  <1>16. h1 < c * Half
    <2> DEFINE a == c * Half
    <2>1. a \in Nat /\ Value(r1) < a * Place
      BY <1>13, <1>14 DEF B
    <2> HIDE DEF a, r1
    <2>2. r1[N - 1] < a
      BY <1>1, <2>1, TopBelow
    <2> QED BY <2>2 DEF a
  <1> HIDE DEF r1
  <1>17. Tidy(r2) /\ D \in Nat /\ Value(r1) = D + P * t1 /\ t1 \in Nat /\ D = low1 + C * t1 + e1 * Place
    BY <1>15, PassIs
  <1> HIDE DEF h1, low1, D
  <1>18. h1 = Half * t1 + e1 /\ e1 \in Nat /\ e1 <= Half - 1
    <2>1. h1 = Half * (h1 \div Half) + (h1 % Half) /\ h1 % Half \in 0..(Half - 1)
      BY <1>2, <1>15, DivMod
    <2> HIDE DEF t1, e1
    <2>2. h1 = Half * t1 + e1 /\ e1 \in 0..(Half - 1)
      BY <2>1 DEF t1, e1
    <2> QED BY <1>2, <2>2
  <1> HIDE DEF t1, e1
  <1>19. ~ (c <= t1)
    <2> SUFFICES ASSUME c <= t1 PROVE FALSE
      OBVIOUS
    <2>1. Half * c <= Half * t1
      BY <1>2, <1>14, <1>17, TimesKeeps
    <2>2. Half * c = c * Half /\ Half * t1 \in Nat
      BY <1>2, <1>14, <1>17
    <2> QED BY <1>14, <1>15, <1>16, <1>18, <2>1, <2>2
  <1>20. C * t1 <= Place /\ C * t1 \in Nat
    <2> DEFINE a == 2 * g + 2
    <2>1. a \in Nat /\ t1 <= a
      BY <1>14, <1>17, <1>19 DEF c
    <2>2. C * a <= Place
      BY <1>4
    <2> HIDE DEF a
    <2>3. C * t1 <= C * a
      BY <1>2, <1>17, <2>1, TimesKeeps
    <2>4. C * t1 \in Nat /\ C * a \in Nat
      BY <1>2, <1>17, <2>1
    <2> QED BY <1>2, <2>2, <2>3, <2>4
  <1>21. e1 * Place <= Full - Place /\ e1 * Place \in Nat
    <2>1. Half - 1 \in Nat
      BY <1>2
    <2>2. Place * e1 <= Place * (Half - 1)
      BY <1>2, <1>18, <2>1, TimesKeeps
    <2>3. Place * (Half - 1) = Full - Place /\ Place * e1 = e1 * Place /\ e1 * Place \in Nat
      BY <1>2, <1>18
    <2> QED BY <2>2, <2>3
  <1>22. D < (Half + 1) * Place
    <2>1. (Half + 1) * Place = Full + Place
      BY <1>2
    <2> QED BY <1>2, <1>15, <1>17, <1>20, <1>21, <2>1
  <1>23. r2[N - 1] <= Half
    <2> DEFINE a == Half + 1
               h2 == r2[N - 1]
    <2>1. a \in Nat /\ Value(r2) < a * Place
      BY <1>2, <1>22 DEF D
    <2> HIDE DEF a, r2
    <2>2. h2 < a /\ h2 \in Nat
      BY <1>17, <2>1, TopBelow, TidyValue
    <2> HIDE DEF h2
    <2>3. h2 <= Half
      BY <1>2, <2>2 DEF a
    <2> QED BY <2>3 DEF h2
  <1>24. Small(r2)
    BY <1>17, <1>23 DEF Small
  <1> DEFINE u == t + t1
  <1>25. A = D + P * u /\ u \in Nat
    <2>1. P * (t + t1) = P * t + P * t1 /\ P * t \in Nat /\ P * t1 \in Nat
      BY <1>1, <1>2, <1>17
    <2>2. B = D + P * t1
      BY <1>17 DEF B
    <2> QED BY <1>1, <1>17, <2>1, <2>2
  <1>26. Value(v) = Value(r2) + P * u /\ u \in Nat
    BY <1>25 DEF A, D
  <1>27. r2 = reduce_mul(v)
    BY DEF r2, r1, reduce_mul
  <1> QED BY <1>24, <1>26, <1>27

LEMMA FieldMulIs ==
  ASSUME NEW x, Small(x), NEW y, Small(y)
  PROVE  LET r == fe25519_mul(x, y)
         IN Small(r) /\ Value(r) % P = (Value(x) * Value(y)) % P
  <1> DEFINE w == Columns(x, y)
             high == Upper(w, N, N)
             v == [k \in Limbs |-> Column(x, y, k) + 2 * C * Column(x, y, k + N)]
             folded == [k \in Limbs |-> 2 * C * high[k]]
             r == reduce_mul(v)
             g == 3 * C * N
             len == N + N
             lo == ValueOf(w, N, LimbBits)
             hi == ValueOf(high, N, LimbBits)
             s == LargestProduct * N
  <1>1. /\ N \in Nat /\ LimbBits \in Nat /\ C \in Nat \ {0} /\ Base \in Nat \ {0} /\ Limbs = 0..(N - 1) /\ len \in Nat
        /\ P \in Nat \ {0} /\ Full = P + C /\ Power[LimbBits * N] = 2 * Full
    <2>1. Base * Place = 2 * (Half * Place)
      BY FieldSizes
    <2>2. Power[LimbBits * N] = Base * Place
      BY FieldSizes
    <2>3. Power[LimbBits * N] = 2 * Full
      BY <2>1, <2>2 DEF Full
    <2>4. N \in Nat /\ LimbBits \in Nat /\ C \in Nat \ {0} /\ Base \in Nat \ {0}
      BY FieldSizes
    <2>5. P \in Nat \ {0} /\ Full = P + C
      BY FieldSizes
    <2> QED BY <2>3, <2>4, <2>5 DEF Limbs
  <1>2. Numbers(x, N) /\ Numbers(y, N)
    BY SmallNumbers
  <1>3. \A k \in Nat : Column(x, y, k) \in Nat /\ Column(x, y, k) <= s /\ s \in Nat
    <2>1. LargestProduct \in Nat
      BY <1>1 DEF LargestProduct
    <2>2. s \in Nat
      BY <1>1, <2>1
    <2> QED BY <2>2, ColumnFew
  <1>4. \A k \in Nat : w[k] = Column(x, y, k)
    BY DEF Columns
  <1> HIDE DEF w
  <1>5. \A k \in Limbs : high[k] = Column(x, y, k + N) /\ high[k] \in Nat
    <2> SUFFICES ASSUME NEW k \in Limbs PROVE high[k] = Column(x, y, k + N) /\ high[k] \in Nat
      OBVIOUS
    <2>1. N + k = k + N /\ k + N \in Nat
      BY <1>1
    <2>2. high[k] = w[N + k]
      BY <1>1 DEF Upper
    <2> QED BY <1>3, <1>4, <2>1, <2>2
  <1> HIDE DEF high
  <1>6. \A k \in Limbs : folded[k] = 2 * C * high[k] /\ v[k] = w[k] + folded[k] /\ w[k] \in Nat /\ folded[k] \in Nat /\ v[k] \in Nat
    <2> SUFFICES ASSUME NEW k \in Limbs
                 PROVE folded[k] = 2 * C * high[k] /\ v[k] = w[k] + folded[k] /\ w[k] \in Nat /\ folded[k] \in Nat /\ v[k] \in Nat
      OBVIOUS
    <2>1. k \in Nat
      BY <1>1
    <2>2. w[k] = Column(x, y, k) /\ w[k] \in Nat
      BY <1>3, <1>4, <2>1
    <2>3. high[k] = Column(x, y, k + N) /\ high[k] \in Nat
      BY <1>5
    <2>4. 2 * C * high[k] \in Nat
      BY <1>1, <2>3
    <2>5. folded[k] = 2 * C * high[k] /\ v[k] = w[k] + 2 * C * high[k]
      BY <2>2, <2>3
    <2> HIDE DEF v, folded
    <2> QED BY <2>2, <2>4, <2>5
  <1>7. \A k \in Limbs : v[k] <= (g * (Base - 1)) * (Base - 1)
    <2> SUFFICES ASSUME NEW k \in Limbs PROVE v[k] <= (g * (Base - 1)) * (Base - 1)
      OBVIOUS
    <2> DEFINE a == w[k]
               h == high[k]
               V == v[k]
    <2>1. a \in Nat /\ a <= s /\ s \in Nat
      <3>1. k \in Nat
        BY <1>1
      <3> QED BY <1>3, <1>4, <3>1
    <2>2. h \in Nat /\ h <= s
      <3>1. k + N \in Nat
        BY <1>1
      <3> QED BY <1>3, <1>5, <3>1
    <2>3. V = a + 2 * C * h
      BY <1>6
    <2>4. (g * (Base - 1)) * (Base - 1) = 3 * C * s
      BY <1>1 DEF LargestProduct
    <2> HIDE DEF a, h, s, g, v, V
    <2> DEFINE c == 2 * C
    <2>5. c \in Nat /\ 2 * C * h = c * h /\ 3 * C * s = c * s + C * s /\ C * s \in Nat /\ c * s \in Nat
      BY <1>1, <2>1, <2>2
    <2> HIDE DEF c
    <2>6. c * h <= c * s
      BY <2>1, <2>2, <2>5, TimesKeeps
    <2>7. s <= C * s
      <3>1. 1 \in Nat /\ 1 <= C /\ C \in Nat
        BY <1>1
      <3>2. s * 1 <= s * C
        BY <2>1, <3>1, TimesKeeps
      <3> QED BY <1>1, <2>1, <3>2
    <2>8. c * h \in Nat
      BY <2>2, <2>5
    <2>9. V <= c * s + C * s
      BY <2>1, <2>3, <2>5, <2>6, <2>7, <2>8
    <2> QED BY <2>4, <2>5, <2>9 DEF V
  <1>8. v \in [Limbs -> Nat]
    <2>1. v = [k \in Limbs |-> v[k]]
      OBVIOUS
    <2>2. \A k \in Limbs : v[k] \in Nat
      BY <1>6
    <2> HIDE DEF v
    <2> QED BY <2>1, <2>2
  <1>9. g \in Nat /\ g = 3 * C * N
    BY <1>1
  <1> HIDE DEF v, folded, g, s
  <1>10. Small(r) /\ \E t \in Nat : Value(v) = Value(r) + P * t
    BY <1>7, <1>8, <1>9, TwoPasses
  <1>11. Value(v) = lo + 2 * C * hi
    <2>1. \A k \in 0..(N - 1) : w[k] \in Int /\ folded[k] \in Int /\ v[k] = w[k] + folded[k]
      BY <1>1, <1>6
    <2>2. ValueOf(v, N, LimbBits) = ValueOf(w, N, LimbBits) + ValueOf(folded, N, LimbBits)
      BY <1>1, <2>1, ValueAdds
    <2> DEFINE c == 2 * C
    <2>3. c \in Int /\ \A k \in 0..(N - 1) : high[k] \in Int /\ folded[k] = c * high[k]
      BY <1>1, <1>5, <1>6
    <2> HIDE DEF c
    <2>4. ValueOf(folded, N, LimbBits) = c * ValueOf(high, N, LimbBits)
      BY <1>1, <2>3, ValueTimes
    <2> QED BY <2>2, <2>4 DEF c, Value
  <1>12. lo \in Nat /\ hi \in Nat
    <2>1. \A k \in 0..(N - 1) : w[k] \in Nat /\ high[k] \in Nat
      BY <1>1, <1>5, <1>6
    <2> QED BY <1>1, <2>1, ValueIsNat
  <1>13. Value(x) * Value(y) = lo + 2 * Full * hi
    <2>1. len >= N + N
      BY <1>1
    <2>2. \A n \in Nat : n >= N + N => ValueOf(Columns(x, y), n, LimbBits) = ValueOf(x, N, LimbBits) * ValueOf(y, N, LimbBits)
      BY <1>1, <1>2, ProductValue
    <2>3. ValueOf(w, len, LimbBits) = Value(x) * Value(y)
      BY <1>1, <2>1, <2>2 DEF w, Value
    <2> DEFINE low == N
               n == N
    <2>4. \A k \in 0..(low + n - 1) : w[k] \in Int
      <3>1. \A k \in Nat : w[k] \in Int
        BY <1>3, <1>4
      <3>2. \A k \in 0..(low + n - 1) : k \in Nat
        BY <1>1
      <3> QED BY <3>1, <3>2
    <2>5. low \in Nat /\ n \in Nat
      BY <1>1
    <2> HIDE DEF low, n
    <2>6. ValueOf(w, low + n, LimbBits) = ValueOf(w, low, LimbBits) + Power[LimbBits * low] * ValueOf(Upper(w, low, n), n, LimbBits)
      BY <1>1, <2>4, <2>5, ValueSplit
    <2> QED BY <1>1, <2>3, <2>6 DEF high, low, n
  <1> HIDE DEF lo, hi
  <1>14. PICK t \in Nat : Value(v) = Value(r) + P * t
    BY <1>10
  <1>15. Value(r) \in Nat
    BY <1>10, SmallLimbs
  <1> DEFINE A == Value(x) * Value(y)
             B == Value(r)
             u == t + 2 * hi
  <1>16. A = B + P * u /\ u \in Nat /\ B \in Nat
    <2>1. 2 * Full * hi = P * (2 * hi) + 2 * C * hi /\ P * (t + 2 * hi) = P * t + P * (2 * hi) /\ P * t \in Nat /\ P * (2 * hi) \in Nat
      BY <1>1, <1>12
    <2>2. 2 * C * hi \in Nat
      BY <1>1, <1>12
    <2>3. A = lo + 2 * Full * hi /\ lo + 2 * C * hi = B + P * t
      BY <1>11, <1>13, <1>14
    <2> HIDE DEF A, B
    <2>4. B \in Nat
      BY <1>15 DEF B
    <2> DEFINE X == 2 * C * hi
               Y == P * (2 * hi)
               Z == P * t
               F == 2 * Full * hi
    <2>5. X \in Nat /\ Y \in Nat /\ Z \in Nat /\ F = Y + X /\ P * u = Z + Y /\ A = lo + F /\ lo + X = B + Z
      BY <2>1, <2>2, <2>3
    <2>6. u \in Nat
      BY <1>12
    <2> HIDE DEF X, Y, Z, F, u
    <2>7. A = B + P * u
      BY <1>12, <2>4, <2>5
    <2> QED BY <2>4, <2>6, <2>7
  <1> HIDE DEF A, B, u
  <1>17. (B + P * u) % P = B % P
    BY <1>1, <1>16, ModMultiple
  <1>18. Value(r) % P = (Value(x) * Value(y)) % P
    BY <1>16, <1>17 DEF A, B
  <1>19. r = fe25519_mul(x, y)
    BY DEF r, v, fe25519_mul
  <1> QED BY <1>10, <1>18, <1>19

-----------------------------------------------------------------------------
(* Reading and writing of an element.                                      *)
LEMMA BelowFull ==
  ASSUME NEW v, Tidy(v), v[N - 1] < Half
  PROVE  Small(v) /\ Value(v) < Full
  <1> DEFINE h == v[N - 1]
             low == ValueOf(v, N - 1, LimbBits)
             A == Value(v)
  <1>1. low \in Nat /\ low < Place /\ h \in Nat /\ A = low + h * Place
    BY TidyValue
  <1>2. Half \in Nat \ {0} /\ Place \in Nat /\ Full = Half * Place
    BY FieldSizes DEF Full
  <1>3. h < Half
    OBVIOUS
  <1> HIDE DEF h, low, A
  <1>4. Place * h <= Place * (Half - 1)
    <2>1. Half - 1 \in Nat /\ h <= Half - 1
      BY <1>1, <1>2, <1>3
    <2> QED BY <1>1, <1>2, <2>1, TimesKeeps
  <1>5. Place * (Half - 1) = Full - Place /\ Place * h = h * Place /\ h * Place \in Nat /\ Full \in Nat
    BY <1>1, <1>2
  <1>6. A < Full
    BY <1>1, <1>2, <1>4, <1>5
  <1>7. h <= Half
    BY <1>1, <1>2, <1>3
  <1> QED BY <1>6, <1>7 DEF A, h, Small

LEMMA UnpackIs ==
  ASSUME NEW x \in Nat
  PROVE  LET r == fe25519_unpack(x) IN Small(r) /\ Value(r) < Full
  <1> DEFINE v == LimbsOf(x, N, LimbBits)
             r == [v EXCEPT ![N - 1] = @ % Half]
  <1>1. N \in Nat /\ LimbBits \in Nat /\ Base = Power[LimbBits] /\ Half \in Nat \ {0} /\ Base \in Nat \ {0}
    BY FieldSizes
  <1>2. v \in [Limbs -> 0..(Base - 1)]
    BY <1>1, LimbsAreCut DEF Cut, Limbs
  <1> HIDE DEF v
  <1>3. v[N - 1] \in Nat /\ v[N - 1] % Half \in 0..(Half - 1)
    <2> DEFINE h == v[N - 1]
    <2>1. h \in Nat
      BY <1>1, <1>2, TheLimbs
    <2> HIDE DEF h
    <2>2. h % Half \in 0..(Half - 1)
      BY <1>1, <2>1, DivMod
    <2> QED BY <2>1, <2>2 DEF h
  <1>4. r = [v EXCEPT ![N - 1] = v[N - 1] % Half]
    BY <1>2, TheLimbs
  <1> HIDE DEF r
  <1>5. DOMAIN r = Limbs /\ r = [k \in Limbs |-> r[k]] /\ r[N - 1] = v[N - 1] % Half /\ \A k \in 0..(N - 2) : r[k] = v[k]
    BY <1>2, <1>4, TheLimbs
  <1>6. \A k \in 0..(N - 2) : r[k] \in 0..(Base - 1)
    BY <1>2, <1>5, TheLimbs
  <1>7. \A k \in Limbs : r[k] \in Nat
    <2>1. r[N - 1] \in Nat
      BY <1>1, <1>3, <1>5
    <2> QED BY <1>1, <1>6, <2>1, TheLimbs
  <1>8. Tidy(r)
    BY <1>5, <1>6, <1>7 DEF Tidy, Lower
  <1>9. r[N - 1] < Half
    <2> DEFINE h == r[N - 1]
    <2>1. h \in 0..(Half - 1)
      BY <1>3, <1>5
    <2> HIDE DEF h
    <2>2. h < Half
      BY <1>1, <2>1
    <2> QED BY <2>2 DEF h
  <1>10. r = fe25519_unpack(x)
    BY DEF r, v, fe25519_unpack
  <1> QED BY <1>8, <1>9, <1>10, BelowFull

(* Limbs that stand for the prime or for a little more are seen to.        *)
Seen(v) == v[N - 1] = Half - 1 /\ (\A i \in 1..(N - 2) : v[i] = Base - 1) /\ v[0] >= PLimb(0)

LEMMA LowestAdds ==
  ASSUME NEW d \in Int, NEW u, NEW v, \A k \in Limbs : u[k] \in Int /\ v[k] \in Int,
         v[0] = u[0] + d, \A k \in 1..(N - 1) : v[k] = u[k]
  PROVE  Value(v) = Value(u) + d
  <1> DEFINE one == [k \in Limbs |-> IF k = 0 THEN d ELSE 0]
             n == N - 1
  <1>1. n \in Nat /\ N = n + 1 /\ LimbBits \in Nat /\ Limbs = 0..n /\ N \in Nat
    <2>1. N \in Nat \ {0, 1, 2, 3} /\ LimbBits \in Nat
      BY FieldSizes
    <2> QED BY <2>1 DEF Limbs
  <1>2. one[0] = d /\ \A k \in 1..n : one[k] = 0
    BY <1>1
  <1>3. \A k \in 0..(N - 1) : u[k] \in Int /\ one[k] \in Int /\ v[k] = u[k] + one[k]
    <2> SUFFICES ASSUME NEW k \in Limbs PROVE u[k] \in Int /\ one[k] \in Int /\ v[k] = u[k] + one[k]
      BY <1>1
    <2>1. CASE k = 0
      BY <1>2, <2>1
    <2>2. CASE k # 0
      <3>1. k \in 1..(N - 1)
        BY <1>1, <2>2
      <3> QED BY <1>2, <3>1
    <2> QED BY <2>1, <2>2
  <1> HIDE DEF one, n
  <1>4. ValueOf(one, n + 1, LimbBits) = d
    BY <1>1, <1>2, ValueLowest
  <1>5. ValueOf(v, N, LimbBits) = ValueOf(u, N, LimbBits) + ValueOf(one, N, LimbBits)
    BY <1>1, <1>3, ValueAdds
  <1> QED BY <1>1, <1>4, <1>5 DEF Value

LEMMA SeenIs ==
  ASSUME NEW v, Small(v), Seen(v)
  PROVE  Value(fe25519_freeze(v)) \in Nat /\ Value(v) = Value(fe25519_freeze(v)) + P
  <1> DEFINE u == [k \in Limbs |-> v[k] - PLimb(k)]
             d == v[0] - PLimb(0)
  <1>1. u = fe25519_freeze(v)
    BY DEF Seen, fe25519_freeze
  <1>2. v \in [Limbs -> Nat] /\ Value(v) \in Nat /\ v[N - 1] = Half - 1 /\ (\A i \in 1..(N - 2) : v[i] = Base - 1) /\ v[0] >= PLimb(0)
    BY SmallLimbs DEF Seen
  <1>3. \A k \in Limbs : Prime[k] \in Nat /\ Prime[k] = PLimb(k)
    BY PrimeLimbs
  <1>4. d \in Nat
    <2>1. v[0] \in Nat /\ PLimb(0) \in Nat
      BY <1>2, <1>3, TheLimbs
    <2> QED BY <1>2, <2>1
  <1>5. \A k \in 1..(N - 1) : v[k] = Prime[k]
    <2> SUFFICES ASSUME NEW k \in 1..(N - 1) PROVE v[k] = Prime[k]
      OBVIOUS
    <2>1. N \in Nat \ {0, 1, 2, 3}
      BY FieldSizes
    <2>2. k \in Limbs /\ k # 0 /\ (k = N - 1 \/ (k \in 1..(N - 2) /\ k # N - 1))
      BY <2>1 DEF Limbs
    <2> QED BY <1>2, <1>3, <2>2 DEF PLimb
  <1>6. v[0] = Prime[0] + d
    <2>1. v[0] \in Nat /\ PLimb(0) \in Nat /\ Prime[0] = PLimb(0)
      BY <1>2, <1>3, TheLimbs
    <2> QED BY <2>1
  <1>7. u[0] = 0 + d /\ \A k \in 1..(N - 1) : u[k] = 0
    <2>1. \A k \in Limbs : u[k] = v[k] - PLimb(k)
      OBVIOUS
    <2>2. \A k \in 1..(N - 1) : k \in Limbs
      BY FieldSizes DEF Limbs
    <2>3. u[0] = d
      BY <2>1, TheLimbs
    <2>4. \A k \in 1..(N - 1) : v[k] \in Nat /\ u[k] = v[k] - v[k]
      BY <1>2, <1>3, <1>5, <2>1, <2>2
    <2> HIDE DEF u
    <2>5. \A k \in 1..(N - 1) : u[k] = 0
      BY <2>4
    <2> QED BY <1>4, <2>3, <2>5
  <1> DEFINE none == [k \in Limbs |-> 0]
  <1>8. \A k \in Limbs : none[k] = 0
    OBVIOUS
  <1>9. \A k \in Limbs : u[k] \in Int
    BY <1>2, <1>3
  <1> HIDE DEF u, d, none
  <1>10. \A k \in Limbs : v[k] \in Int /\ Prime[k] \in Int
    BY <1>2, <1>3
  <1>11. Value(v) = Value(Prime) + d
    <2>1. d \in Int
      BY <1>4
    <2> QED BY <1>5, <1>6, <1>10, <2>1, LowestAdds
  <1>12. Value(none) = 0
    <2>1. N \in Nat /\ LimbBits \in Nat /\ \A k \in 0..(N - 1) : none[k] = 0
      BY <1>8, FieldSizes DEF Limbs
    <2> QED BY <2>1, ValueNone DEF Value
  <1>13. Value(u) = Value(none) + d
    <2>1. d \in Int
      BY <1>4
    <2>2. \A k \in 1..(N - 1) : k \in Limbs
      BY FieldSizes DEF Limbs
    <2>3. u[0] = none[0] + d /\ \A k \in 1..(N - 1) : u[k] = none[k]
      BY <1>7, <1>8, <2>2, TheLimbs
    <2>4. \A k \in Limbs : none[k] \in Int /\ u[k] \in Int
      BY <1>8, <1>9
    <2> QED BY <2>1, <2>3, <2>4, LowestAdds
  <1>14. P \in Nat
    BY FieldSizes
  <1> DEFINE B == Value(u)
             A == Value(v)
  <1>15. B = 0 + d /\ A = P + d
    BY <1>11, <1>12, <1>13, PrimeIs
  <1> HIDE DEF A, B
  <1>16. B \in Nat /\ A = B + P
    BY <1>4, <1>14, <1>15
  <1> QED BY <1>1, <1>16 DEF A, B

LEMMA UnseenBelow ==
  ASSUME NEW v, Small(v), Value(v) < Full, ~ Seen(v)
  PROVE  Value(v) < P
  <1> DEFINE A == Value(v)
             d == A - P
             p0 == PLimb(0)
             w == [k \in Limbs |-> IF k = 0 THEN p0 + d ELSE Prime[k]]
  <1>1. A \in Nat /\ A < P + C /\ P \in Nat /\ C \in Nat \ {0} /\ C <= Half /\ Half \in Nat \ {0} /\ Base \in Nat \ {0} /\ Base = 2 * Half
    <2>1. A \in Nat
      BY SmallLimbs
    <2>2. A < Full
      OBVIOUS
    <2> HIDE DEF A
    <2>3. Full = P + C /\ P \in Nat /\ C \in Nat \ {0} /\ C <= Half /\ Half \in Nat /\ Half >= 4 /\ Base \in Nat \ {0} /\ Base = 2 * Half
      BY FieldSizes
    <2> QED BY <2>1, <2>2, <2>3
  <1>2. N \in Nat \ {0, 1, 2, 3} /\ N \in Nat /\ LimbBits \in Nat /\ Base = Power[LimbBits] /\ Limbs = 0..(N - 1)
    BY FieldSizes DEF Limbs
  <1> HIDE DEF A
  <1> SUFFICES ASSUME P <= A PROVE FALSE
    BY <1>1 DEF A
  <1>3. d \in Nat /\ d < C /\ A = P + d
    BY <1>1
  <1> HIDE DEF d
  <1>4. p0 = Base - C /\ p0 \in Nat /\ p0 = Prime[0]
    <2>1. p0 = Base - C
      BY DEF PLimb
    <2> HIDE DEF p0
    <2>2. p0 = Prime[0]
      BY PrimeLimbs, TheLimbs DEF p0
    <2> QED BY <1>1, <2>1, <2>2
  <1> HIDE DEF p0
  <1>5. \A k \in Limbs : Prime[k] \in 0..(Base - 1)
    <2>1. Prime[N - 1] \in 0..(Base - 1)
      BY <1>1, PrimeLimbs
    <2>2. \A k \in Limbs : Prime[k] \in Nat
      BY PrimeLimbs
    <2>3. \A k \in 0..(N - 2) : Prime[k] <= Base - 1
      BY PrimeLimbs
    <2> QED BY <1>1, <2>1, <2>2, <2>3, TheLimbs
  <1>6. w[0] = Prime[0] + d /\ \A k \in 1..(N - 1) : w[k] = Prime[k]
    <2>1. \A k \in 1..(N - 1) : k \in Limbs /\ k # 0
      BY <1>2
    <2> QED BY <1>4, <2>1, TheLimbs
  <1>7. w \in [Limbs -> 0..(Base - 1)]
    <2>1. p0 + d \in 0..(Base - 1)
      BY <1>1, <1>3, <1>4
    <2> QED BY <1>5, <2>1
  <1> HIDE DEF w
  <1>8. Value(w) = A
    <2>1. \A k \in Limbs : Prime[k] \in Int /\ w[k] \in Int
      BY <1>1, <1>5, <1>7
    <2>2. d \in Int
      BY <1>3
    <2>3. Value(w) = Value(Prime) + d
      BY <1>6, <2>1, <2>2, LowestAdds
    <2> QED BY <1>3, <2>3, PrimeIs
  <1>9. v \in [Limbs -> 0..(Base - 1)]
    <2>1. v \in [Limbs -> Nat] /\ (\A k \in 0..(N - 2) : v[k] \in 0..(Base - 1)) /\ v[N - 1] \in 0..Half
      BY SmallLimbs
    <2>2. v[N - 1] \in 0..(Base - 1)
      BY <1>1, <2>1
    <2>3. \A k \in Limbs : v[k] \in 0..(Base - 1)
      BY <2>1, <2>2, TheLimbs
    <2> QED BY <2>1, <2>3
  <1>10. v = w
    <2>1. v \in Cut(N, LimbBits) /\ w \in Cut(N, LimbBits)
      BY <1>2, <1>7, <1>9 DEF Cut
    <2>2. v = LimbsOf(ValueOf(v, N, LimbBits), N, LimbBits)
      BY <1>2, <2>1, LimbsUnique
    <2>3. w = LimbsOf(ValueOf(w, N, LimbBits), N, LimbBits)
      BY <1>2, <2>1, LimbsUnique
    <2>4. ValueOf(v, N, LimbBits) = ValueOf(w, N, LimbBits)
      BY <1>8 DEF Value, A
    <2> QED BY <2>2, <2>3, <2>4
  <1>11. w[N - 1] = Half - 1
    <2>1. N - 1 \in 1..(N - 1)
      BY <1>2
    <2> QED BY <1>6, <2>1, PrimeLimbs
  <1>12. \A i \in 1..(N - 2) : w[i] = Base - 1
    <2> SUFFICES ASSUME NEW i \in 1..(N - 2) PROVE w[i] = Base - 1
      OBVIOUS
    <2>1. i \in 1..(N - 1) /\ i \in Limbs /\ i # 0 /\ i # N - 1
      BY <1>2
    <2>2. Prime[i] = PLimb(i)
      BY <2>1, PrimeLimbs
    <2> QED BY <1>6, <2>1, <2>2 DEF PLimb
  <1>13. w[0] >= PLimb(0)
    BY <1>3, <1>4, <1>6 DEF p0
  <1> QED BY <1>10, <1>11, <1>12, <1>13 DEF Seen

LEMMA PackIs ==
  ASSUME NEW v, Small(v), Value(v) < Full
  PROVE  fe25519_pack(v) = Value(v) % P
  <1> DEFINE A == Value(v)
             B == fe25519_pack(v)
  <1>1. A \in Nat /\ A < P + C /\ P \in Nat \ {0} /\ C \in Nat /\ C <= P
    <2>1. A \in Nat
      BY SmallLimbs
    <2>2. A < Full
      OBVIOUS
    <2> HIDE DEF A
    <2>3. Full = P + C /\ P \in Nat \ {0} /\ C \in Nat \ {0} /\ C <= P
      BY FieldSizes
    <2> QED BY <2>1, <2>2, <2>3
  <1>2. CASE Seen(v)
    <2>1. B \in Nat /\ A = B + P
      BY <1>2, SeenIs DEF fe25519_pack
    <2> HIDE DEF A, B
    <2> DEFINE one == 1
    <2>2. A = P * one + B /\ one \in Nat /\ B \in 0..(P - 1)
      BY <1>1, <2>1
    <2> HIDE DEF one
    <2>3. A % P = B
      BY <1>1, <2>2, DivModIs
    <2> QED BY <2>3 DEF A, B
  <1>3. CASE ~ Seen(v)
    <2>1. A < P
      BY <1>3, UnseenBelow
    <2>2. fe25519_freeze(v) = v
      BY <1>3 DEF Seen, fe25519_freeze
    <2>3. B = A
      BY <2>2 DEF fe25519_pack
    <2> HIDE DEF A, B
    <2> DEFINE zero == 0
    <2>4. A = P * zero + A /\ zero \in Nat /\ A \in 0..(P - 1)
      BY <1>1, <2>1
    <2> HIDE DEF zero
    <2>5. A % P = A
      BY <1>1, <2>4, DivModIs
    <2> QED BY <2>3, <2>5 DEF A, B
  <1> QED BY <1>2, <1>3

-----------------------------------------------------------------------------
(* Exponents.                                                              *)
LEMMA SquaredIs ==
  ASSUME NEW e \in Nat, NEW n \in Nat, NEW M \in Nat \ {0}
  PROVE  Squared(e, n, M) = (e * Power[n]) % M
  <1> DEFINE IsPower(f) == f = [k \in 0..n |-> IF k < 15 THEN Power[k] % M ELSE (Power[15] * f[k - 15]) % M]
             power == CHOOSE f : IsPower(f)
             g == [k \in 0..n |-> Power[k] % M]
             fifteen == 15
  <1>1. \A k \in 0..n : g[k] = IF k < 15 THEN Power[k] % M ELSE (Power[15] * g[k - 15]) % M
    <2> SUFFICES ASSUME NEW k \in 0..n, 15 <= k PROVE Power[k] % M = (Power[15] * (Power[k - 15] % M)) % M
      OBVIOUS
    <2> DEFINE d == k - fifteen
               a == Power[fifteen]
               b == Power[d]
               r == b % M
               c == b \div M
               s == a * r
               t == a * c
    <2>1. fifteen \in Nat /\ d \in Nat /\ fifteen + d = k
      OBVIOUS
    <2> HIDE DEF fifteen, d
    <2>2. Power[k] = a * b /\ a \in Nat /\ b \in Nat
      BY <2>1, PowerSum, PowerIn
    <2> HIDE DEF a, b
    <2>3. b = M * c + r /\ r \in 0..(M - 1) /\ c \in Nat
      BY <2>2, DivMod
    <2> HIDE DEF c, r
    <2>4. a * b = s + M * t /\ s \in Nat /\ t \in Nat
      <3>1. r \in Nat
        BY <2>3
      <3>2. a * (M * c + r) = a * r + M * (a * c)
        BY <2>2, <2>3, <3>1
      <3>3. a * r \in Nat /\ a * c \in Nat
        BY <2>2, <2>3, <3>1
      <3> QED BY <2>3, <3>2, <3>3
    <2> HIDE DEF s, t
    <2>5. (s + M * t) % M = s % M
      BY <2>4, ModMultiple
    <2>6. Power[k] % M = s % M
      BY <2>2, <2>4, <2>5
    <2>7. s = Power[15] * (Power[k - 15] % M)
      BY DEF s, r, b, a, d, fifteen
    <2> QED BY <2>6, <2>7
  <1>2. IsPower(g)
    <2>1. g = [k \in 0..n |-> g[k]]
      OBVIOUS
    <2> HIDE DEF g
    <2> QED BY <1>1, <2>1
  <1>3. IsPower(power)
    BY <1>2
  <1>4. Squared(e, n, M) = ((e % M) * power[n]) % M
    BY DEF Squared
  <1> HIDE DEF power
  <1>5. \A k \in 0..n : power[k] = IF k < 15 THEN Power[k] % M ELSE (Power[15] * power[k - 15]) % M
    BY <1>3
  <1> HIDE DEF g
  <1> DEFINE T == {k \in 0..n : power[k] # g[k]}
  <1>6. T = {}
    <2> SUFFICES ASSUME T # {} PROVE FALSE
      OBVIOUS
    <2>1. T \in SUBSET Nat
      OBVIOUS
    <2> HIDE DEF T
    <2>2. PICK k \in T : \A l \in T : k <= l
      BY <2>1, NatLeast
    <2>3. k \in 0..n /\ power[k] # g[k]
      BY DEF T
    <2>4. CASE k < 15
      BY <1>1, <1>5, <2>3, <2>4
    <2>5. CASE 15 <= k
      <3>1. k - 15 \in 0..n /\ ~ (k <= k - 15)
        BY <2>3, <2>5
      <3>2. k - 15 \notin T
        BY <2>2, <3>1
      <3>3. power[k - 15] = g[k - 15]
        BY <3>1, <3>2 DEF T
      <3> QED BY <1>1, <1>5, <2>3, <2>5, <3>3
    <2> QED BY <2>3, <2>4, <2>5
  <1>7. power[n] = Power[n] % M
    <2>1. n \in 0..n
      OBVIOUS
    <2>2. power[n] = g[n]
      BY <1>6, <2>1 DEF T
    <2> QED BY <2>1, <2>2 DEF g
  <1> DEFINE p == Power[n]
  <1>8. p \in Nat /\ Squared(e, n, M) = ((e % M) * (p % M)) % M
    BY <1>4, <1>7, PowerIn
  <1> HIDE DEF p
  <1>9. ((e % M) * (p % M)) % M = (e * p) % M
    BY <1>8, ModTimes
  <1> QED BY <1>8, <1>9 DEF p

Alike(x, y, M) == x \in Nat /\ y \in Nat /\ x % M = y % M

(* z stands for 2^a - 1 modulo M.                                          *)
Ones(z, a, M) == Alike(z, Power[a] - 1, M)

LEMMA SameSum ==
  ASSUME NEW M \in Nat \ {0}, NEW x, NEW y, Alike(x, y, M)
  PROVE  \A z \in Nat : Alike(x + z, y + z, M)
  <1> SUFFICES ASSUME NEW z \in Nat PROVE Alike(x + z, y + z, M)
    OBVIOUS
  <1>1. x \in Nat /\ y \in Nat /\ x % M = y % M
    BY DEF Alike
  <1>2. (x + z) % M = ((x % M) + z) % M
    BY <1>1, ModPlus
  <1>3. (y + z) % M = ((y % M) + z) % M
    BY <1>1, ModPlus
  <1>4. x + z \in Nat /\ y + z \in Nat
    BY <1>1
  <1> QED BY <1>1, <1>2, <1>3, <1>4 DEF Alike

LEMMA SquaredTimes ==
  ASSUME NEW M \in Nat \ {0}, NEW z, NEW x, Alike(z, x, M), NEW n \in Nat
  PROVE  Alike(Squared(z, n, M), x * Power[n], M)
  <1>0. z \in Nat /\ x \in Nat /\ z % M = x % M
    BY DEF Alike
  <1> DEFINE p == Power[n]
             a == z * p
             b == x * p
             s == Squared(z, n, M)
  <1>1. p \in Nat /\ s = (z * p) % M
    BY <1>0, SquaredIs, PowerIn
  <1> HIDE DEF p, s
  <1>2. ((z % M) * (p % M)) % M = (z * p) % M
    BY <1>0, <1>1, ModTimes
  <1>3. ((x % M) * (p % M)) % M = (x * p) % M
    BY <1>0, <1>1, ModTimes
  <1>4. s = b % M /\ b \in Nat
    BY <1>0, <1>1, <1>2, <1>3
  <1> HIDE DEF b
  <1>5. s \in 0..(M - 1)
    BY <1>4, DivMod
  <1> DEFINE zero == 0
  <1>6. s = M * zero + s /\ zero \in Nat /\ s \in Nat
    BY <1>5
  <1> HIDE DEF zero
  <1>7. s % M = s
    BY <1>5, <1>6, DivModIs
  <1>8. s % M = b % M
    BY <1>4, <1>7
  <1> QED BY <1>4, <1>6, <1>8 DEF b, p, s, Alike

LEMMA OnesLonger ==
  ASSUME NEW M \in Nat \ {0}, NEW a \in Nat, NEW b \in Nat, NEW z, Ones(z, a, M), NEW y, Ones(y, b, M)
  PROVE  Ones(Squared(z, b, M) + y, a + b, M)
  <1> DEFINE p == Power[a]
             q == Power[b]
             x == p - 1
             w == q - 1
             s == Squared(z, b, M)
             t == x * q
  <1>1. p \in Nat \ {0} /\ q \in Nat \ {0} /\ Power[a + b] = p * q
    BY PowerIn, PowerSum
  <1>2. x \in Nat /\ w \in Nat
    BY <1>1
  <1>3. Alike(z, x, M) /\ Alike(y, w, M)
    BY DEF Ones
  <1> HIDE DEF x, w
  <1>4. Alike(s, t, M)
    BY <1>3, SquaredTimes
  <1>5. t \in Nat /\ s \in Nat /\ y \in Nat
    BY <1>3, <1>4 DEF Alike
  <1> HIDE DEF p, q, s, t
  <1>6. Alike(s + y, t + y, M)
    <2>1. \A n \in Nat : Alike(s + n, t + n, M)
      BY <1>4, SameSum
    <2> QED BY <1>5, <2>1
  <1>7. Alike(y + t, w + t, M)
    <2>1. \A n \in Nat : Alike(y + n, w + n, M)
      BY <1>3, SameSum
    <2> QED BY <1>5, <2>1
  <1>8. y + t = t + y /\ s + y \in Nat
    BY <1>5
  <1>9. w + t = p * q - 1
    <2>1. (p - 1) * q = p * q - q
      BY <1>1
    <2> QED BY <1>1, <2>1 DEF x, w, t
  <1>10. (s + y) % M = (Power[a + b] - 1) % M /\ Power[a + b] - 1 \in Nat
    BY <1>1, <1>2, <1>5, <1>6, <1>7, <1>8, <1>9 DEF Alike
  <1> QED BY <1>8, <1>10 DEF Ones, Alike, s

LEMMA SameIs ==
  ASSUME NEW M \in Nat \ {0}, NEW x \in Nat
  PROVE  Alike(x, x, M)
  BY DEF Alike

LEMMA OnesIsNat ==
  ASSUME NEW M, NEW a, NEW z, Ones(z, a, M)
  PROVE  z \in Nat
  BY DEF Ones, Alike

LEMMA FirstExponents ==
  ASSUME NEW M \in Nat \ {0}
  PROVE  Alike(z11(M), 11, M) /\ Ones(z2_5_0(M), 5, M)
  <1> DEFINE one == 1
             two == 2
             three == 3
             five == 5
             z == z11(M)
             a == Squared(one, one, M)
             b == Squared(one, three, M)
             c == Squared(z, one, M)
  <1>1. one \in Nat /\ two \in Nat /\ three \in Nat
    OBVIOUS
  <1>2. Power[one] = 2 /\ Power[three] = 8
    BY SmallPowers
  <1>3. Power[five] = 32
    <2>1. five \in Nat /\ Power[1 + 3] = Power[1] * Power[3] /\ Power[1 + (1 + 3)] = Power[1] * Power[1 + 3]
      BY PowerSum
    <2>2. five = 1 + (1 + 3)
      OBVIOUS
    <2> HIDE DEF five
    <2> QED BY <2>1, <2>2, SmallPowers
  <1>4. one * 2 = 2 /\ one * 8 = 8
    OBVIOUS
  <1>5. z = b + 1 + a
    BY DEF z11
  <1>6. z2_5_0(M) = c + b + 1
    BY DEF z2_5_0
  <1> HIDE DEF one, three, five, z, a, b, c
  <1>7. Alike(one, one, M)
    BY <1>1, SameIs
  <1>8. Alike(a, one * Power[one], M)
    BY <1>1, <1>7, SquaredTimes DEF a
  <1>9. Alike(b, one * Power[three], M)
    BY <1>1, <1>7, SquaredTimes DEF b
  <1> DEFINE n2 == 2
             n8 == 8
  <1>10. Alike(a, n2, M) /\ Alike(b, n8, M)
    BY <1>2, <1>4, <1>8, <1>9
  <1>11. n2 \in Nat /\ n8 \in Nat /\ n8 + 1 + n2 = 11
    OBVIOUS
  <1> HIDE DEF n2, n8
  <1>12. a \in Nat /\ b \in Nat
    BY <1>10 DEF Alike
  <1>13. Alike(z, n8 + 1 + n2, M)
    <2>1. \A n \in Nat : Alike(b + n, n8 + n, M)
      BY <1>10, SameSum
    <2>2. \A n \in Nat : Alike(a + n, n2 + n, M)
      BY <1>10, SameSum
    <2>3. Alike(b + (1 + a), n8 + (1 + a), M)
      <3>1. 1 + a \in Nat
        BY <1>12
      <3> QED BY <2>1, <3>1
    <2>4. Alike(a + (1 + n8), n2 + (1 + n8), M)
      <3>1. 1 + n8 \in Nat
        BY <1>11
      <3> QED BY <2>2, <3>1
    <2>5. n8 + (1 + a) = a + (1 + n8) /\ n2 + (1 + n8) = n8 + 1 + n2 /\ b + (1 + a) = z
      BY <1>5, <1>11, <1>12
    <2> QED BY <2>3, <2>4, <2>5 DEF Alike
  <1> DEFINE n11 == 11
             n22 == 22
  <1>14. Alike(z, n11, M)
    BY <1>11, <1>13
  <1>15. Alike(c, n11 * Power[one], M)
    <2> HIDE DEF n11
    <2> QED BY <1>1, <1>14, SquaredTimes DEF c
  <1>16. Alike(c, n22, M)
    <2>1. n11 * 2 = n22
      OBVIOUS
    <2> HIDE DEF n11, n22
    <2> QED BY <1>2, <1>15, <2>1
  <1>17. n22 \in Nat /\ n22 + (n8 + 1) = Power[five] - 1
    BY <1>3 DEF n8
  <1> HIDE DEF n22
  <1>18. Ones(z2_5_0(M), five, M)
    <2>1. \A n \in Nat : Alike(c + n, n22 + n, M)
      BY <1>16, SameSum
    <2>2. \A n \in Nat : Alike(b + n, n8 + n, M)
      BY <1>10, SameSum
    <2>3. Alike(c + (b + 1), n22 + (b + 1), M)
      <3>1. b + 1 \in Nat
        BY <1>12
      <3> QED BY <2>1, <3>1
    <2>4. Alike(b + (1 + n22), n8 + (1 + n22), M)
      <3>1. 1 + n22 \in Nat
        BY <1>17
      <3> QED BY <2>2, <3>1
    <2>5. c \in Nat
      BY <1>16 DEF Alike
    <2>6. n22 + (b + 1) = b + (1 + n22) /\ n8 + (1 + n22) = n22 + (n8 + 1) /\ c + (b + 1) = z2_5_0(M)
      BY <1>6, <1>11, <1>12, <1>17, <2>5
    <2>7. Alike(z2_5_0(M), n22 + (n8 + 1), M)
      BY <2>3, <2>4, <2>6 DEF Alike
    <2> QED BY <1>17, <2>7 DEF Ones
  <1> QED BY <1>14, <1>18 DEF five, z

LEMMA LastExponent ==
  ASSUME NEW M \in Nat \ {0}, NEW a \in Nat, NEW w, Ones(w, a, M), NEW b \in Nat,
         NEW y, NEW d, Alike(y, d, M), NEW e \in Nat, d + e = Power[b]
  PROVE  (Squared(w, b, M) + y) % M = (Squared(1, a + b, M) - e) % M
  <1> DEFINE p == Power[a]
             q == Power[b]
             x == p - 1
             s == Squared(w, b, M)
             t == x * q
             n == a + b
             r == Squared(1, n, M)
             f == Power[n]
             c == f \div M
  <1>1. p \in Nat \ {0} /\ q \in Nat \ {0} /\ f = p * q /\ d + e = q /\ n \in Nat /\ f \in Nat
    <2>1. p \in Nat \ {0} /\ q \in Nat \ {0}
      BY PowerIn
    <2>2. d + e = q
      OBVIOUS
    <2>3. n \in Nat /\ f \in Nat
      BY PowerIn
    <2>4. f = p * q
      BY PowerSum
    <2> HIDE DEF p, q, n, f
    <2> QED BY <2>1, <2>2, <2>3, <2>4
  <1>2. Alike(w, x, M)
    BY DEF Ones
  <1>3. r = f % M
    <2> DEFINE one == 1
    <2>1. one \in Nat /\ one * f = f
      BY <1>1
    <2> HIDE DEF one
    <2>2. Squared(one, n, M) = (one * Power[n]) % M
      BY <1>1, <2>1, SquaredIs
    <2> QED BY <2>1, <2>2 DEF one
  <1> HIDE DEF n, r, f
  <1>4. Alike(s, t, M)
    <2> HIDE DEF x
    <2> QED BY <1>2, SquaredTimes
  <1>5. s \in Nat /\ t \in Nat /\ y \in Nat /\ d \in Nat
    BY <1>4 DEF Alike
  <1>6. t = p * q - q
    <2>1. (p - 1) * q = p * q - q
      BY <1>1
    <2> QED BY <2>1
  <1> HIDE DEF s, t, p, q, x
  <1>7. Alike(s + y, t + y, M)
    <2>1. \A k \in Nat : Alike(s + k, t + k, M)
      BY <1>4, SameSum
    <2> QED BY <1>5, <2>1
  <1>8. Alike(y + t, d + t, M)
    <2>1. \A k \in Nat : Alike(y + k, d + k, M)
      BY SameSum
    <2> QED BY <1>5, <2>1
  <1>9. y + t = t + y /\ d + t = f - e
    BY <1>1, <1>5, <1>6
  <1>10. (s + y) % M = (f - e) % M
    BY <1>7, <1>8, <1>9 DEF Alike
  <1>11. f = M * c + r /\ c \in Nat /\ r \in Nat
    <2>1. f = M * (f \div M) + (f % M) /\ f % M \in 0..(M - 1) /\ f \div M \in Nat
      BY <1>1, DivMod
    <2>2. r \in 0..(M - 1)
      BY <1>3, <2>1
    <2> QED BY <1>3, <2>1, <2>2
  <1> HIDE DEF c
  <1> DEFINE g == r - e
  <1>12. g \in Int /\ c \in Int /\ f - e = g + M * c
    <2>1. M * c \in Nat
      BY <1>11
    <2> QED BY <1>1, <1>11, <2>1
  <1> HIDE DEF g
  <1>13. (g + M * c) % M = g % M
    BY <1>12, WithoutMultiple
  <1>14. (s + y) % M = g % M
    BY <1>10, <1>12, <1>13
  <1> QED BY <1>14 DEF g, r, n, s

(* The exponents of fe25519_invert and fe25519_pow2523.                    *)
LEMMA ExponentsAre ==
  ASSUME NEW M \in Nat \ {0}
  PROVE  /\ fe25519_invert(M) = (Squared(1, 255, M) - 21) % M
         /\ fe25519_pow2523(M) = (Squared(1, 252, M) - 3) % M
  <1> DEFINE z5 == z2_5_0(M)
             z10 == z2_10_0(M)
             z20 == z2_20_0(M)
             z40 == Squared(z20, 20, M) + z20
             z50 == z2_50_0(M)
             z100 == z2_100_0(M)
             z200 == Squared(z100, 100, M) + z100
             z250 == z2_250_0(M)
  <1>1. Ones(z5, 5, M) /\ Alike(z11(M), 11, M)
    BY FirstExponents
  <1>2. /\ z10 = Squared(z5, 5, M) + z5
        /\ z20 = Squared(z10, 10, M) + z10
        /\ z50 = Squared(z40, 10, M) + z10
        /\ z100 = Squared(z50, 50, M) + z50
        /\ z250 = Squared(z200, 50, M) + z50
    BY DEF z2_10_0, z2_20_0, z2_50_0, z2_100_0, z2_250_0
  <1>3. z40 = Squared(z20, 20, M) + z20 /\ z200 = Squared(z100, 100, M) + z100
    OBVIOUS
  <1> HIDE DEF z5, z10, z20, z40, z50, z100, z200, z250
  <1> DEFINE Longer(a, b, c) == \A z, y : Ones(z, a, M) /\ Ones(y, b, M) => Ones(Squared(z, b, M) + y, c, M)
  <1>4. ASSUME NEW a \in Nat, NEW b \in Nat, NEW c, c = a + b
        PROVE  Longer(a, b, c)
    BY <1>4, OnesLonger
  <1>5. /\ Longer(5, 5, 10) /\ Longer(10, 10, 20) /\ Longer(20, 20, 40) /\ Longer(40, 10, 50)
        /\ Longer(50, 50, 100) /\ Longer(100, 100, 200) /\ Longer(200, 50, 250)
    <2> HIDE DEF Longer
    <2>1. \A a, b \in Nat : Longer(a, b, a + b)
      BY <1>4
    <2>2. Longer(5, 5, 5 + 5) /\ Longer(10, 10, 10 + 10) /\ Longer(20, 20, 20 + 20) /\ Longer(40, 10, 40 + 10)
      BY <2>1
    <2>3. Longer(50, 50, 50 + 50) /\ Longer(100, 100, 100 + 100) /\ Longer(200, 50, 200 + 50)
      BY <2>1
    <2> QED BY <2>2, <2>3
  <1>6. Ones(z10, 10, M)
    BY <1>1, <1>2, <1>5
  <1>7. Ones(z20, 20, M)
    BY <1>2, <1>5, <1>6
  <1>8. Ones(z40, 40, M)
    BY <1>3, <1>5, <1>7
  <1>9. Ones(z50, 50, M)
    BY <1>2, <1>5, <1>6, <1>8
  <1>10. Ones(z100, 100, M)
    BY <1>2, <1>5, <1>9
  <1>11. Ones(z200, 200, M)
    BY <1>3, <1>5, <1>10
  <1>12. Ones(z250, 250, M)
    BY <1>2, <1>5, <1>9, <1>11
  <1> HIDE DEF Longer
  <1> DEFINE y == z11(M)
  <1>13. fe25519_invert(M) = (Squared(z250, 5, M) + y) % M /\ fe25519_pow2523(M) = (Squared(z250, 2, M) + 1) % M
    BY DEF fe25519_invert, fe25519_pow2523, z250
  <1>14. 11 + 21 = Power[5] /\ 1 + 3 = Power[2]
    <2>1. Power[4] = 16
      <3>1. Power[3 + 1] = 2 * Power[3]
        BY PowerIs
      <3> QED BY <3>1, SmallPowers
    <2>2. Power[4 + 1] = 2 * Power[4]
      BY PowerIs
    <2> QED BY <2>1, <2>2, SmallPowers
  <1>15. Alike(1, 1, M)
    BY SameIs
  <1>16. Alike(y, 11, M)
    BY <1>1
  <1> HIDE DEF y
  <1> DEFINE Ends(a, b, v, d, e) == (Squared(z250, b, M) + v) % M = (Squared(1, a + b, M) - e) % M
  <1>17. \A a, b, e \in Nat : \A v, d : Ones(z250, a, M) /\ Alike(v, d, M) /\ d + e = Power[b] => Ends(a, b, v, d, e)
    BY LastExponent
  <1> HIDE DEF Ends
  <1>18. Ends(250, 5, y, 11, 21)
    BY <1>12, <1>14, <1>16, <1>17
  <1>19. Ends(250, 2, 1, 1, 3)
    BY <1>12, <1>14, <1>15, <1>17
  <1>20. 250 + 5 = 255 /\ 250 + 2 = 252
    OBVIOUS
  <1> QED BY <1>13, <1>18, <1>19, <1>20 DEF Ends

-----------------------------------------------------------------------------
(* The field: limbs small enough for any operation stand for the residue.  *)
FieldInv ==
  /\ Small(fe)
  /\ residue = Value(fe) % P
  /\ last \in {"unpack", "add", "sub", "mul"}
  /\ last # "mul" => Value(fe) < Full

LEMMA ReadIsSmall ==
  ASSUME NEW y \in Read
  PROVE  Small(y) /\ Value(y) < Full
  <1>1. PICK x \in Unpacked : y = fe25519_unpack(x)
    BY DEF Read
  <1>2. x \in Nat
    BY <1>1, FieldAssumption
  <1> QED BY <1>1, <1>2, UnpackIs

LEMMA OperandsAreSmall ==
  ASSUME NEW y \in Operands
  PROVE  Small(y) /\ Value(y) \in Nat
  <1>1. CASE y \in Read
    BY <1>1, ReadIsSmall, SmallLimbs
  <1>2. CASE y \notin Read
    <2>1. PICK x \in Read, z \in Read : y = fe25519_mul(x, z)
      BY <1>2 DEF Operands
    <2>2. Small(x) /\ Small(z)
      BY ReadIsSmall
    <2>3. Small(fe25519_mul(x, z))
      BY <2>2, FieldMulIs
    <2> QED BY <2>1, <2>3, SmallLimbs
  <1> QED BY <1>1, <1>2

LEMMA FieldInvInit == FieldInit => FieldInv
  <1> SUFFICES ASSUME FieldInit PROVE FieldInv
    OBVIOUS
  <1>1. fe \in Read /\ residue = Value(fe) % P /\ last = "unpack"
    BY DEF FieldInit
  <1>2. Small(fe) /\ Value(fe) < Full
    BY <1>1, ReadIsSmall
  <1> QED BY <1>1, <1>2 DEF FieldInv

LEMMA FieldInvKept == FieldInv /\ [FieldStep]_fvars => FieldInv'
  <1> SUFFICES ASSUME FieldInv, [FieldStep]_fvars PROVE FieldInv'
    OBVIOUS
  <1> DEFINE V == Value(fe)
             c == V \div P
  <1>1. Small(fe) /\ residue = V % P /\ V \in Nat /\ P \in Nat \ {0}
    BY SmallLimbs, FieldSizes DEF FieldInv
  <1>2. V = P * c + residue /\ residue \in Nat /\ c \in Nat
    <2> HIDE DEF V
    <2>1. V = P * (V \div P) + (V % P) /\ V % P \in 0..(P - 1) /\ V \div P \in Nat
      BY <1>1, DivMod
    <2>2. V % P \in Nat
      BY <2>1
    <2> QED BY <1>1, <2>1, <2>2
  <1>3. ASSUME NEW y \in Operands, Add(y) PROVE FieldInv'
    <2> DEFINE W == Value(y)
    <2>1. Small(y) /\ W \in Nat
      BY OperandsAreSmall
    <2>2. fe' = fe25519_add(fe, y) /\ residue' = (residue + W) % P /\ last' = "add"
      BY <1>3 DEF Add
    <2>3. Tidy(fe') /\ Value(fe') < Full /\ Value(fe') % P = (V + W) % P
      BY <1>1, <2>1, <2>2, FieldAddIs
    <2>4. (V + W) % P = ((V % P) + W) % P
      <3> HIDE DEF V, W
      <3> QED BY <1>1, <2>1, ModPlus
    <2>5. residue' = Value(fe') % P
      BY <1>1, <2>2, <2>3, <2>4
    <2>6. Small(fe')
      BY <2>3, SmallBelow
    <2>7. (Small(fe))' /\ (residue = Value(fe) % P)' /\ (Value(fe) < Full)'
      BY <2>3, <2>5, <2>6 DEF Small, Tidy, Lower, Value, Limbs, Half, Base, Full, P, Place
    <2> QED BY <2>2, <2>7 DEF FieldInv
  <1>4. ASSUME NEW y \in Operands, Sub(y) PROVE FieldInv'
    <2> DEFINE W == Value(y)
    <2>1. Small(y) /\ W \in Nat
      BY OperandsAreSmall
    <2>2. fe' = fe25519_sub(fe, y) /\ residue' = (residue - W) % P /\ last' = "sub"
      BY <1>4 DEF Sub
    <2>3. Tidy(fe') /\ Value(fe') < Full /\ Value(fe') % P = (V - W) % P
      BY <1>1, <2>1, <2>2, FieldSubIs
    <2>4. (V - W) % P = (residue - W) % P
      <3> DEFINE n == residue - W
      <3> HIDE DEF V, W, c
      <3>1. n \in Int /\ c \in Int /\ V - W = n + P * c
        <4>1. P * c \in Nat
          BY <1>1, <1>2
        <4> QED BY <1>1, <1>2, <2>1, <4>1
      <3> HIDE DEF n
      <3>2. (n + P * c) % P = n % P
        BY <1>1, <3>1, WithoutMultiple
      <3> QED BY <3>1, <3>2 DEF n
    <2>5. residue' = Value(fe') % P
      BY <2>2, <2>3, <2>4
    <2>6. Small(fe')
      BY <2>3, SmallBelow
    <2>7. (Small(fe))' /\ (residue = Value(fe) % P)' /\ (Value(fe) < Full)'
      BY <2>3, <2>5, <2>6 DEF Small, Tidy, Lower, Value, Limbs, Half, Base, Full, P, Place
    <2> QED BY <2>2, <2>7 DEF FieldInv
  <1>5. ASSUME NEW y \in Operands, Mul(y) PROVE FieldInv'
    <2> DEFINE W == Value(y)
    <2>1. Small(y) /\ W \in Nat
      BY OperandsAreSmall
    <2>2. fe' = fe25519_mul(fe, y) /\ residue' = (residue * (W % P)) % P /\ last' = "mul"
      BY <1>5 DEF Mul
    <2>3. Small(fe') /\ Value(fe') % P = (V * W) % P
      BY <1>1, <2>1, <2>2, FieldMulIs
    <2>4. ((V % P) * (W % P)) % P = (V * W) % P
      <3> HIDE DEF V, W
      <3> QED BY <1>1, <2>1, ModTimes
    <2>5. residue' = Value(fe') % P
      BY <1>1, <2>2, <2>3, <2>4
    <2>6. (Small(fe))' /\ (residue = Value(fe) % P)'
      BY <2>3, <2>5 DEF Small, Tidy, Lower, Value, Limbs, Half, Base, P
    <2> QED BY <2>2, <2>6 DEF FieldInv
  <1>6. CASE Neg
    <2>1. fe' = fe25519_neg(fe) /\ residue' = (-residue) % P /\ last' = "sub"
      BY <1>6 DEF Neg
    <2>2. Tidy(fe') /\ Value(fe') < Full /\ Value(fe') % P = (-V) % P
      BY <1>1, <2>1, FieldNegIs
    <2>3. (-V) % P = (-residue) % P
      <3> DEFINE n == -residue
                 d == -c
      <3> HIDE DEF V, c
      <3>1. n \in Int /\ d \in Int /\ -V = n + P * d
        <4>1. P * c \in Nat /\ P * (-c) = -(P * c)
          BY <1>1, <1>2
        <4> QED BY <1>1, <1>2, <4>1
      <3> HIDE DEF n, d
      <3>2. (n + P * d) % P = n % P
        BY <1>1, <3>1, WithoutMultiple
      <3> QED BY <3>1, <3>2 DEF n
    <2>4. residue' = Value(fe') % P
      BY <2>1, <2>2, <2>3
    <2>5. Small(fe')
      BY <2>2, SmallBelow
    <2>6. (Small(fe))' /\ (residue = Value(fe) % P)' /\ (Value(fe) < Full)'
      BY <2>2, <2>4, <2>5 DEF Small, Tidy, Lower, Value, Limbs, Half, Base, Full, P, Place
    <2> QED BY <2>1, <2>6 DEF FieldInv
  <1>7. CASE Square
    <2>1. fe' = fe25519_mul(fe, fe) /\ residue' = (residue * residue) % P /\ last' = "mul"
      BY <1>7 DEF Square
    <2>2. Small(fe') /\ Value(fe') % P = (V * V) % P
      BY <1>1, <2>1, FieldMulIs
    <2>3. ((V % P) * (V % P)) % P = (V * V) % P
      <3> HIDE DEF V
      <3> QED BY <1>1, ModTimes
    <2>4. residue' = Value(fe') % P
      BY <1>1, <2>1, <2>2, <2>3
    <2>5. (Small(fe))' /\ (residue = Value(fe) % P)'
      BY <2>2, <2>4 DEF Small, Tidy, Lower, Value, Limbs, Half, Base, P
    <2> QED BY <2>1, <2>5 DEF FieldInv
  <1>8. CASE UNCHANGED fvars
    BY <1>8 DEF fvars, FieldInv, Small, Tidy, Lower, Value, Limbs, Half, Base, Full, P, Place
  <1> QED BY <1>3, <1>4, <1>5, <1>6, <1>7, <1>8 DEF FieldStep

LEMMA ExactFromInv == FieldInv => FieldIsExact
  <1> SUFFICES ASSUME FieldInv PROVE FieldIsExact
    OBVIOUS
  <1>1. Small(fe) /\ residue = Value(fe) % P /\ (last # "mul" => Value(fe) < Full)
    BY DEF FieldInv
  <1>2. Full = P + C
    BY FieldSizes
  <1>3. \A k \in Limbs : fe[k] \in 0..(IF k = N - 1 THEN Half ELSE Base - 1)
    <2>1. (\A k \in 0..(N - 2) : fe[k] \in 0..(Base - 1)) /\ fe[N - 1] \in 0..Half
      BY <1>1, SmallLimbs
    <2> QED BY <2>1, TheLimbs
  <1>4. Value(fe) < P + C => fe25519_pack(fe) = residue
    BY <1>1, <1>2, PackIs
  <1>5. ASSUME NEW M \in Moduli
        PROVE  /\ fe25519_invert(M) = (Squared(1, 255, M) - 21) % M
               /\ fe25519_pow2523(M) = (Squared(1, 252, M) - 3) % M
    <2>1. M \in 22..Power[15] /\ Power[15] \in Nat
      BY FieldAssumption, PowerIn
    <2>2. M \in Nat \ {0}
      BY <2>1
    <2> QED BY <2>2, ExponentsAre
  <1> QED BY <1>1, <1>2, <1>3, <1>4, <1>5 DEF FieldIsExact

(* After any sequence of operations of fe25519.c an element stands for the *)
(* right residue and its limbs fit the next operation, what is below 2^255 *)
(* is packed to the residue, and the chains of fe25519_invert and          *)
(* fe25519_pow2523 raise to p - 2 and (p - 5) / 8.                         *)
THEOREM FieldAlwaysExact == FieldSpec => []FieldIsExact
  <1>1. FieldInit => FieldInv
    BY FieldInvInit
  <1>2. FieldInv /\ [FieldStep]_fvars => FieldInv'
    BY FieldInvKept
  <1>3. FieldInv => FieldIsExact
    BY ExactFromInv
  <1> QED BY <1>1, <1>2, <1>3, PTL DEF FieldSpec

-----------------------------------------------------------------------------
Slots == {Text(x) : x \in Contents} \cup {Garbage}

(* What a signature of text with the key of k is, slot by slot.            *)
NonceOf(k, text) == Sha512(<<Prefix(k)>> \o text)
HashOf(n, k, text) == Sha512(<<PointOf(n), Public(k)>> \o text)
SOf(k, text) == SlotS(HashOf(NonceOf(k, text), k, text), k, NonceOf(k, text), 0)
Signature(k, text) == <<PointOf(NonceOf(k, text)), SOf(k, text)>> \o text

SignedInv ==
  \A e \in signed : e.seed \in Seeds /\ e.msg \in Messages /\ e.sm = Signature(e.seed, e.msg)

(* How far the signature has come.                                         *)
Signing(k) ==
  /\ sk = <<Seed(k), Public(k)>> /\ msg \in Messages
  /\ doing \in {"nonce", "R"} => sm = <<Garbage, Prefix(k)>> \o msg
  /\ doing = "hram" => sm = <<PointOf(nonce), Prefix(k)>> \o msg
  /\ doing = "S" => sm = <<PointOf(nonce), Public(k)>> \o msg /\ hram = HashOf(nonce, k, msg)
  /\ doing \in {"R", "hram", "S"} => nonce = NonceOf(k, msg)
SigningInv == doing \in {"nonce", "R", "hram", "S"} => \E k \in Seeds : Signing(k)

OpeningInv ==
  /\ doing \in {"unpack", "verify"} =>
       sm \in Openable /\ pk \in {Public(k) : k \in Seeds} \cup {Garbage} /\ mlen = -1
  /\ doing = "unpack" => output = [k \in 1..Len(sm) |-> Garbage]
  /\ doing = "verify" => Len(sm) >= 2 /\ output = playground(sm, pk) /\ hram = Sha512(output)

DoingOK == doing \in {"idle", "nonce", "R", "hram", "S", "signed", "unpack", "verify", "opened"}
Ed25519Inv == DoingOK /\ SignedInv /\ SigningInv /\ OpeningInv /\ OpensExactlySigned

-----------------------------------------------------------------------------
(* A buffer is two slots and a message.                                    *)
LEMMA TwoThenText ==
  ASSUME NEW X, NEW t \in Seq(X), NEW a, NEW b
  PROVE  /\ <<a, b>> \o t \in Seq(X \cup {a, b})
         /\ Len(<<a, b>> \o t) = Len(t) + 2
         /\ (<<a, b>> \o t)[1] = a /\ (<<a, b>> \o t)[2] = b
         /\ \A k \in 1..Len(t) : (<<a, b>> \o t)[k + 2] = t[k]
  <1>1. <<a, b>> \in Seq(X \cup {a, b}) /\ t \in Seq(X \cup {a, b}) /\ Len(t) \in Nat
    OBVIOUS
  <1> QED BY <1>1

LEMMA SameSequence ==
  ASSUME NEW X, NEW Y, NEW s \in Seq(X), NEW t \in Seq(Y), Len(s) = Len(t), \A k \in 1..Len(s) : s[k] = t[k]
  PROVE  s = t
  OBVIOUS

LEMMA BehindTwo ==
  ASSUME NEW X, NEW t \in Seq(X), NEW a, NEW b
  PROVE  SubSeq(<<a, b>> \o t, 3, Len(<<a, b>> \o t)) = t
  <1> DEFINE s == <<a, b>> \o t
             Z == X \cup {a, b}
             r == SubSeq(s, 3, Len(s))
  <1>1. s \in Seq(Z) /\ Len(s) = Len(t) + 2 /\ (\A k \in 1..Len(t) : s[k + 2] = t[k]) /\ Len(t) \in Nat
    BY TwoThenText
  <1> HIDE DEF s, Z
  <1>2. r \in Seq(Z) /\ Len(r) = Len(t)
    BY <1>1
  <1>3. \A k \in 1..Len(r) : r[k] = t[k]
    BY <1>1, <1>2
  <1> HIDE DEF r
  <1>4. r = t
    BY <1>2, <1>3, SameSequence
  <1> QED BY <1>4 DEF r, s

LEMMA ReplaceFirst ==
  ASSUME NEW X, NEW t \in Seq(X), NEW a, NEW b, NEW c
  PROVE  [<<a, b>> \o t EXCEPT ![1] = c] = <<c, b>> \o t
  <1> DEFINE s == <<a, b>> \o t
             u == <<c, b>> \o t
             r == [s EXCEPT ![1] = c]
             Z == X \cup {a, b}
             Y == X \cup {c, b}
  <1>1. s \in Seq(Z) /\ Len(s) = Len(t) + 2 /\ s[2] = b /\ (\A k \in 1..Len(t) : s[k + 2] = t[k]) /\ Len(t) \in Nat
    BY TwoThenText
  <1>2. u \in Seq(Y) /\ Len(u) = Len(t) + 2 /\ u[1] = c /\ u[2] = b /\ (\A k \in 1..Len(t) : u[k + 2] = t[k])
    BY TwoThenText
  <1> HIDE DEF s, u
  <1>3. r \in Seq(Z \cup {c}) /\ Len(r) = Len(u)
    BY <1>1, <1>2
  <1>4. r[1] = c /\ r[2] = b /\ \A k \in 1..Len(t) : r[k + 2] = t[k]
    BY <1>1
  <1> HIDE DEF r, Z, Y
  <1>5. ASSUME NEW k \in 1..Len(r) PROVE r[k] = u[k]
    <2>1. CASE k = 1
      BY <1>2, <1>4, <2>1
    <2>2. CASE k = 2
      BY <1>2, <1>4, <2>2
    <2>3. CASE k > 2
      <3>1. k - 2 \in 1..Len(t) /\ (k - 2) + 2 = k
        BY <1>1, <1>2, <1>3, <2>3
      <3> QED BY <1>2, <1>4, <3>1
    <2> QED BY <2>1, <2>2, <2>3
  <1>6. r = u
    BY <1>2, <1>3, <1>5, SameSequence
  <1> QED BY <1>6 DEF r, u, s

LEMMA ReplaceSecond ==
  ASSUME NEW X, NEW t \in Seq(X), NEW a, NEW b, NEW c
  PROVE  [<<a, b>> \o t EXCEPT ![2] = c] = <<a, c>> \o t
  <1> DEFINE s == <<a, b>> \o t
             u == <<a, c>> \o t
             r == [s EXCEPT ![2] = c]
             Z == X \cup {a, b}
             Y == X \cup {a, c}
  <1>1. s \in Seq(Z) /\ Len(s) = Len(t) + 2 /\ s[1] = a /\ (\A k \in 1..Len(t) : s[k + 2] = t[k]) /\ Len(t) \in Nat
    BY TwoThenText
  <1>2. u \in Seq(Y) /\ Len(u) = Len(t) + 2 /\ u[1] = a /\ u[2] = c /\ (\A k \in 1..Len(t) : u[k + 2] = t[k])
    BY TwoThenText
  <1> HIDE DEF s, u
  <1>3. r \in Seq(Z \cup {c}) /\ Len(r) = Len(u)
    BY <1>1, <1>2
  <1>4. r[1] = a /\ r[2] = c /\ \A k \in 1..Len(t) : r[k + 2] = t[k]
    BY <1>1
  <1> HIDE DEF r, Z, Y
  <1>5. ASSUME NEW k \in 1..Len(r) PROVE r[k] = u[k]
    <2>1. CASE k = 1
      BY <1>2, <1>4, <2>1
    <2>2. CASE k = 2
      BY <1>2, <1>4, <2>2
    <2>3. CASE k > 2
      <3>1. k - 2 \in 1..Len(t) /\ (k - 2) + 2 = k
        BY <1>1, <1>2, <1>3, <2>3
      <3> QED BY <1>2, <1>4, <3>1
    <2> QED BY <2>1, <2>2, <2>3
  <1>6. r = u
    BY <1>2, <1>3, <1>5, SameSequence
  <1> QED BY <1>6 DEF r, u, s

LEMMA FromSecond ==
  ASSUME NEW X, NEW t \in Seq(X), NEW a, NEW b
  PROVE  SubSeq(<<a, b>> \o t, 2, Len(<<a, b>> \o t)) = <<b>> \o t
  <1> DEFINE s == <<a, b>> \o t
             u == <<b>> \o t
             r == SubSeq(s, 2, Len(s))
             Z == X \cup {a, b}
             Y == X \cup {b}
  <1>1. s \in Seq(Z) /\ Len(s) = Len(t) + 2 /\ s[2] = b /\ (\A k \in 1..Len(t) : s[k + 2] = t[k]) /\ Len(t) \in Nat
    BY TwoThenText
  <1>2. u \in Seq(Y) /\ Len(u) = Len(t) + 1 /\ u[1] = b /\ (\A k \in 1..Len(t) : u[k + 1] = t[k])
    <2>1. <<b>> \in Seq(Y) /\ t \in Seq(Y)
      OBVIOUS
    <2> QED BY <1>1, <2>1
  <1> HIDE DEF s, u, Z, Y
  <1>3. r \in Seq(Z) /\ Len(r) = Len(u) /\ \A k \in 1..Len(r) : r[k] = s[k + 1]
    BY <1>1, <1>2
  <1> HIDE DEF r
  <1>4. ASSUME NEW k \in 1..Len(r) PROVE r[k] = u[k]
    <2>1. CASE k = 1
      BY <1>1, <1>2, <1>3, <2>1
    <2>2. CASE k > 1
      <3>1. k - 1 \in 1..Len(t) /\ (k - 1) + 2 = k + 1 /\ (k - 1) + 1 = k
        BY <1>1, <1>2, <1>3, <2>2
      <3>2. s[(k - 1) + 2] = t[k - 1] /\ u[(k - 1) + 1] = t[k - 1]
        BY <1>1, <1>2, <3>1
      <3> QED BY <1>3, <3>1, <3>2
    <2> QED BY <2>1, <2>2
  <1>5. r = u
    BY <1>2, <1>3, <1>4, SameSequence
  <1> QED BY <1>5 DEF r, u, s

LEMMA TwoTextSame ==
  ASSUME NEW X, NEW t \in Seq(X), NEW u \in Seq(X), NEW a, NEW b, NEW c, NEW d,
         <<a, b>> \o t = <<c, d>> \o u
  PROVE  a = c /\ b = d /\ t = u
  <1>1. a = c /\ b = d
    BY TwoThenText
  <1>2. t = u
    BY BehindTwo, SMTT(30)
  <1> QED BY <1>1, <1>2

LEMMA OneTextSame ==
  ASSUME NEW X, NEW t \in Seq(X), NEW u \in Seq(X), NEW b, <<b>> \o t = <<b>> \o u
  PROVE  t = u
  <1> DEFINE Y == X \cup {b}
  <1>1. <<b>> \in Seq(Y) /\ t \in Seq(Y) /\ u \in Seq(Y) /\ Len(t) \in Nat /\ Len(u) \in Nat
    OBVIOUS
  <1>2. Len(<<b>> \o t) = Len(t) + 1 /\ Len(<<b>> \o u) = Len(u) + 1
    BY <1>1
  <1>3. \A k \in 1..Len(t) : (<<b>> \o t)[k + 1] = t[k]
    BY <1>1
  <1>4. \A k \in 1..Len(u) : (<<b>> \o u)[k + 1] = u[k]
    BY <1>1
  <1>5. Len(t) = Len(u) /\ \A k \in 1..Len(t) : t[k] = u[k]
    BY <1>1, <1>2, <1>3, <1>4
  <1> QED BY <1>5, SameSequence

-----------------------------------------------------------------------------
(* Hashes and points are known by what they are made of.                   *)
LEMMA Free ==
  /\ \A x, y : Sha512(x) = Sha512(y) => x = y
  /\ \A x, y : PointOf(x) = PointOf(y) => x = y
  /\ \A x, y : Public(x) = Public(y) => x = y
  /\ \A x : PointOf(x) # <<"other">>
  /\ \A x : Public(x)[1] = "public"
  BY DEF Sha512, PointOf, Public

LEMMA SParts ==
  ASSUME NEW h, NEW k, NEW n, NEW v, NEW w
  PROVE  /\ SlotS(h, k, n, v)[1] = "s" /\ SlotS(h, k, n, v)[2] = h /\ SlotS(h, k, n, v)[3] = k /\ SlotS(h, k, n, v)[4] = n
         /\ [SlotS(h, k, n, v) EXCEPT ![5] = w] = SlotS(h, k, n, w)
  BY DEF SlotS

LEMMA SlotParts == ASSUME NEW x \in Slots PROVE x # <<"other">> /\ x[1] # "s"
  <1>1. CASE x = Garbage
    BY <1>1 DEF Garbage
  <1>2. CASE \E c \in Contents : x = Text(c)
    BY <1>2 DEF Text
  <1> QED BY <1>1, <1>2 DEF Slots

LEMMA MessagesTyped == Messages \subseteq Seq(Slots) /\ Unsigned \subseteq Seq(Slots)
  <1> DEFINE A == {Text(x) : x \in Contents}
  <1>1. A \subseteq Slots /\ Slots = A \cup {Garbage}
    BY DEF Slots
  <1>2. Messages \subseteq Seq(A) /\ Unsigned \subseteq Seq(Slots)
    BY <1>1, Ed25519Assumption
  <1> HIDE DEF A
  <1>3. Seq(A) \subseteq Seq(Slots)
    BY <1>1
  <1> QED BY <1>2, <1>3

-----------------------------------------------------------------------------
(* What can be opened: whatever it is, its parts are of these forms.       *)
Spliced(e, f, plus, text) == <<PointOf(NonceOf(e.seed, e.msg)),
                               SlotS(HashOf(NonceOf(f.seed, f.msg), f.seed, f.msg), f.seed, NonceOf(f.seed, f.msg), plus)>> \o text

LEMMA SignatureParts ==
  ASSUME NEW e \in signed, SignedInv
  PROVE  /\ e.msg \in Seq(Slots) /\ Len(e.msg) \in Nat /\ Len(e.sm) = Len(e.msg) + 2
         /\ e.sm[1] = PointOf(NonceOf(e.seed, e.msg))
         /\ \A plus : [e.sm[2] EXCEPT ![5] = plus] =
              SlotS(HashOf(NonceOf(e.seed, e.msg), e.seed, e.msg), e.seed, NonceOf(e.seed, e.msg), plus)
  <1>1. e.msg \in Seq(Slots) /\ e.sm = Signature(e.seed, e.msg)
    BY MessagesTyped DEF SignedInv
  <1>2. Len(e.sm) = Len(e.msg) + 2 /\ e.sm[1] = PointOf(NonceOf(e.seed, e.msg)) /\ e.sm[2] = SOf(e.seed, e.msg)
    BY <1>1, TwoThenText DEF Signature
  <1>3. Len(e.msg) \in Nat
    BY <1>1
  <1> QED BY <1>1, <1>2, <1>3, SParts DEF SOf

LEMMA OpenableParts ==
  ASSUME SignedInv, NEW s \in Openable
  PROVE  \/ s \in Unsigned
         \/ \E e \in signed, f \in signed, plus \in {0, 1}, text \in Messages : s = Spliced(e, f, plus, text)
  <1> SUFFICES ASSUME NEW e \in signed, NEW f \in signed, NEW plus \in {0, 1}, NEW text \in Messages,
                      s = <<e.sm[1], [f.sm[2] EXCEPT ![5] = plus]>> \o text
               PROVE  s = Spliced(e, f, plus, text)
    <2> DEFINE F(e, f, plus, text) == <<e.sm[1], [f.sm[2] EXCEPT ![5] = plus]>> \o text
               Cols == {F(e, f, plus, text) : e \in signed, f \in signed, plus \in {0, 1}, text \in Messages}
    <2>1. Openable = Unsigned \cup Cols
      BY DEF Openable
    <2> HIDE DEF F
    <2>2. s \in Cols => \E e \in signed, f \in signed, plus \in {0, 1}, text \in Messages : s = F(e, f, plus, text)
      OBVIOUS
    <2> HIDE DEF Cols
    <2>3. s \in Unsigned \/ \E e \in signed, f \in signed, plus \in {0, 1}, text \in Messages : s = F(e, f, plus, text)
      BY <2>1, <2>2
    <2> QED BY <2>3, ZenonT(40) DEF F
  <1> QED BY SignatureParts DEF Spliced

LEMMA OpenableTyped ==
  ASSUME SignedInv, NEW s \in Openable
  PROVE  \E X : s \in Seq(X)
  <1>1. CASE s \in Unsigned
    BY <1>1, MessagesTyped
  <1>2. ASSUME NEW e \in signed, NEW f \in signed, NEW plus \in {0, 1}, NEW text \in Messages, s = Spliced(e, f, plus, text)
        PROVE  \E X : s \in Seq(X)
    <2>1. text \in Seq(Slots)
      BY MessagesTyped
    <2> DEFINE a == PointOf(NonceOf(e.seed, e.msg))
               b == SlotS(HashOf(NonceOf(f.seed, f.msg), f.seed, f.msg), f.seed, NonceOf(f.seed, f.msg), plus)
    <2>2. s = <<a, b>> \o text
      BY <1>2 DEF Spliced
    <2> HIDE DEF a, b
    <2>3. s \in Seq(Slots \cup {a, b})
      BY <2>1, <2>2, TwoThenText
    <2> QED BY <2>3
  <1> QED BY <1>1, <1>2, OpenableParts

LEMMA Split ==
  ASSUME NEW X, NEW s \in Seq(X), Len(s) >= 2
  PROVE  s = <<s[1], s[2]>> \o SubSeq(s, 3, Len(s)) /\ SubSeq(s, 3, Len(s)) \in Seq(X)
  <1> DEFINE t == SubSeq(s, 3, Len(s))
             u == <<s[1], s[2]>> \o t
  <1>0. Len(s) \in Nat /\ t \in Seq(X) /\ Len(t) = Len(s) - 2
    <2>1. Len(s) \in Nat
      OBVIOUS
    <2>2. Len(s) = 2 \/ Len(s) > 2
      <3> DEFINE n == Len(s)
      <3>1. n \in Nat /\ n >= 2
        BY <2>1
      <3> HIDE DEF n
      <3>2. n = 2 \/ n > 2
        BY <3>1
      <3> QED BY <3>2 DEF n
    <2>3. ASSUME Len(s) = 2 PROVE t \in Seq(X) /\ Len(t) = Len(s) - 2
      BY <2>1, <2>3
    <2>4. ASSUME Len(s) > 2 PROVE t \in Seq(X) /\ Len(t) = Len(s) - 2
      BY <2>1, <2>4
    <2> HIDE DEF t
    <2> QED BY <2>1, <2>2, <2>3, <2>4
  <1>1. \A k \in 1..Len(t) : t[k] = s[k + 2]
    BY <1>0
  <1> HIDE DEF t
  <1>2. /\ u \in Seq(X \cup {s[1], s[2]}) /\ Len(u) = Len(s) /\ u[1] = s[1] /\ u[2] = s[2]
        /\ \A k \in 1..Len(t) : u[k + 2] = t[k]
    BY <1>0, <1>1, TwoThenText
  <1> HIDE DEF u
  <1>3. ASSUME NEW k \in 1..Len(s) PROVE s[k] = u[k]
    <2>1. CASE k = 1
      BY <1>2, <2>1
    <2>2. CASE k = 2
      BY <1>2, <2>2
    <2>3. CASE k > 2
      <3>1. k - 2 \in 1..Len(t) /\ (k - 2) + 2 = k
        BY <1>0, <2>3
      <3>2. t[k - 2] = s[(k - 2) + 2] /\ u[(k - 2) + 2] = t[k - 2]
        BY <1>1, <1>2, <3>1
      <3> QED BY <3>1, <3>2
    <2> QED BY <1>0, <2>1, <2>2, <2>3
  <1>4. s = u
    BY <1>2, <1>3, SameSequence
  <1> QED BY <1>0, <1>4 DEF u, t

Honest == {e \in signed : Public(e.seed) = pk /\ Len(sm) = Len(e.sm) /\ Len(sm) >= 2
                           /\ sm[1] = e.sm[1] /\ SubSeq(sm, 3, Len(sm)) = e.msg
                           /\ \E plus \in {0, 1} : sm[2] = [e.sm[2] EXCEPT ![5] = plus]}

(* The hash that is made to open is the one that was made to sign exactly  *)
(* if the slots are those that were signed.                                *)
LEMMA HonestIsComputed ==
  ASSUME SignedInv, sm \in Openable, Len(sm) >= 2, hram = Sha512(playground(sm, pk))
  PROVE  sm[1] = Computed <=> Honest # {}
  <1> DEFINE t == SubSeq(sm, 3, Len(sm))
             a == sm[1]
             b == sm[2]
  <1> PICK X : sm \in Seq(X)
    BY OpenableTyped
  <1>1. sm = <<a, b>> \o t /\ t \in Seq(X)
    BY Split
  <1>2. hram = Sha512(<<a, pk>> \o t)
    <2> HIDE DEF a, b, t
    <2>1. [<<a, b>> \o t EXCEPT ![2] = pk] = <<a, pk>> \o t
      BY <1>1, ReplaceSecond
    <2> QED BY <1>1, <2>1 DEF playground
  <1> HIDE DEF t, a, b
  <1>3. ASSUME NEW e \in Honest PROVE a = Computed
    <2> DEFINE n == NonceOf(e.seed, e.msg)
    <2>1. e \in signed /\ Public(e.seed) = pk /\ a = e.sm[1] /\ t = e.msg
      BY <1>3 DEF Honest, t, a
    <2>2. PICK plus \in {0, 1} : b = [e.sm[2] EXCEPT ![5] = plus]
      BY <1>3 DEF Honest, b
    <2>3. a = PointOf(n) /\ b = SlotS(HashOf(n, e.seed, e.msg), e.seed, n, plus)
      BY <2>1, <2>2, SignatureParts
    <2>4. hram = HashOf(n, e.seed, e.msg)
      BY <1>2, <2>1, <2>3 DEF HashOf
    <2> HIDE DEF n
    <2>5. b[1] = "s" /\ b[2] = hram /\ Public(b[3]) = pk /\ b[4] = n
      BY <2>1, <2>3, <2>4, SParts
    <2> QED BY <2>3, <2>5 DEF Computed, b
  <1>4. ASSUME a = Computed PROVE Honest # {}
    <2>1. CASE sm \in Unsigned
      <3>1. sm \in Seq(Slots)
        BY <2>1, MessagesTyped
      <3>2. 1 \in 1..Len(sm) /\ 2 \in 1..Len(sm)
        OBVIOUS
      <3>3. a \in Slots /\ b \in Slots
        BY <3>1, <3>2 DEF a, b
      <3>4. Computed = <<"other">>
        BY <3>3, SlotParts DEF Computed, b
      <3> QED BY <1>4, <3>3, <3>4, SlotParts
    <2>2. ASSUME NEW e \in signed, NEW f \in signed, NEW plus \in {0, 1}, NEW text \in Messages,
                 sm = Spliced(e, f, plus, text)
          PROVE  Honest # {}
      <3> DEFINE n == NonceOf(e.seed, e.msg)
                 o == NonceOf(f.seed, f.msg)
                 h == HashOf(o, f.seed, f.msg)
      <3>1. text \in Seq(Slots)
        BY MessagesTyped
      <3>2. sm = <<PointOf(n), SlotS(h, f.seed, o, plus)>> \o text
        BY <2>2 DEF Spliced
      <3>3. a = PointOf(n) /\ b = SlotS(h, f.seed, o, plus) /\ t = text /\ Len(sm) = Len(text) + 2
        <4> HIDE DEF n, o, h
        <4> QED BY <3>1, <3>2, TwoThenText, BehindTwo DEF a, b, t
      <3>4. b[1] = "s" /\ b[2] = h /\ b[3] = f.seed /\ b[4] = o
        <4> HIDE DEF h, o
        <4> QED BY <3>3, SParts
      <3>5. h = hram /\ Public(f.seed) = pk /\ a = PointOf(o)
        <4> HIDE DEF n, o, h
        <4>1. a # <<"other">>
          BY <3>3, Free
        <4> QED BY <1>4, <3>4, <4>1 DEF Computed, b
      <3>6. f.msg \in Seq(Slots) /\ f.sm[1] = PointOf(o) /\ Len(f.sm) = Len(f.msg) + 2
            /\ [f.sm[2] EXCEPT ![5] = plus] = SlotS(h, f.seed, o, plus)
        BY SignatureParts
      <3>7. <<PointOf(o), pk>> \o f.msg = <<a, pk>> \o text
        <4>1. Sha512(<<PointOf(o), pk>> \o f.msg) = Sha512(<<a, pk>> \o text)
          BY <1>2, <3>3, <3>5 DEF HashOf
        <4> HIDE DEF n, o, h
        <4> QED BY <4>1, Free
      <3> HIDE DEF n, o, h
      <3>8. f.msg = text
        <4> DEFINE u == f.msg
                   v == PointOf(o)
        <4>1. u \in Seq(Slots) /\ <<v, pk>> \o u = <<a, pk>> \o text
          BY <3>6, <3>7
        <4> HIDE DEF u, v
        <4>2. u = text
          BY <3>1, <4>1, TwoTextSame
        <4> QED BY <4>2 DEF u
      <3>9. f \in Honest
        BY <3>3, <3>5, <3>6, <3>8 DEF Honest, a, b, t
      <3> QED BY <3>9
    <2> QED BY <2>1, <2>2, OpenableParts
  <1> QED BY <1>3, <1>4 DEF a

-----------------------------------------------------------------------------
(* The steps of signing *)

SigningSteps == {"nonce", "R", "hram", "S"}
OpeningSteps == {"unpack", "verify"}

LEMMA SignStarts ==
  ASSUME Ed25519Inv, NEW k \in Seeds, NEW text \in Messages, Sign(k, text)
  PROVE  Ed25519Inv'
  <1>1. /\ sk' = <<Seed(k), Public(k)>> /\ msg' = text /\ sm' = <<Garbage, Prefix(k)>> \o text
        /\ doing' = "nonce" /\ UNCHANGED signed
    BY DEF Sign, crypto_sign_ed25519_keypair
  <1>2. Signing(k)'
    BY <1>1 DEF Signing
  <1>3. SignedInv'
    BY <1>1 DEF Ed25519Inv, SignedInv
  <1> QED BY <1>1, <1>2, <1>3 DEF Ed25519Inv, DoingOK, SigningInv, OpeningInv, OpensExactlySigned

LEMMA HashNonceKeeps ==
  ASSUME Ed25519Inv, HashNonce
  PROVE  Ed25519Inv'
  <1>1. /\ doing = "nonce" /\ doing' = "R" /\ UNCHANGED <<signed, sm, msg, sk>>
        /\ nonce' = Sha512(SubSeq(sm, 2, Len(sm)))
    BY DEF HashNonce
  <1> PICK k \in Seeds : Signing(k)
    BY <1>1 DEF Ed25519Inv, SigningInv
  <1>2. sk = <<Seed(k), Public(k)>> /\ msg \in Messages /\ sm = <<Garbage, Prefix(k)>> \o msg
    BY <1>1 DEF Signing
  <1>3. msg \in Seq(Slots)
    BY <1>2, MessagesTyped
  <1>4. SubSeq(sm, 2, Len(sm)) = <<Prefix(k)>> \o msg
    <2> DEFINE b == Prefix(k)
    <2>1. sm = <<Garbage, b>> \o msg
      BY <1>2
    <2> HIDE DEF b
    <2>2. SubSeq(sm, 2, Len(sm)) = <<b>> \o msg
      BY <1>3, <2>1, FromSecond
    <2> QED BY <2>2 DEF b
  <1>5. nonce' = NonceOf(k, msg)
    BY <1>1, <1>4 DEF NonceOf
  <1>6. Signing(k)'
    BY <1>1, <1>2, <1>5 DEF Signing
  <1>7. SignedInv'
    BY <1>1 DEF Ed25519Inv, SignedInv
  <1> QED BY <1>1, <1>6, <1>7 DEF Ed25519Inv, DoingOK, SigningInv, OpeningInv, OpensExactlySigned

LEMMA PutRKeeps ==
  ASSUME Ed25519Inv, PutR
  PROVE  Ed25519Inv'
  <1>1. /\ doing = "R" /\ doing' = "hram" /\ UNCHANGED <<signed, msg, sk, nonce>>
        /\ sm' = [sm EXCEPT ![1] = PointOf(nonce)]
    BY DEF PutR
  <1> PICK k \in Seeds : Signing(k)
    BY <1>1 DEF Ed25519Inv, SigningInv
  <1>2. /\ sk = <<Seed(k), Public(k)>> /\ msg \in Messages /\ sm = <<Garbage, Prefix(k)>> \o msg
        /\ nonce = NonceOf(k, msg)
    BY <1>1 DEF Signing
  <1>3. msg \in Seq(Slots)
    BY <1>2, MessagesTyped
  <1>4. sm' = <<PointOf(nonce), Prefix(k)>> \o msg
    <2> DEFINE b == Prefix(k)
               c == PointOf(nonce)
    <2>1. sm = <<Garbage, b>> \o msg /\ sm' = [sm EXCEPT ![1] = c]
      BY <1>1, <1>2
    <2> HIDE DEF b, c
    <2>2. sm' = <<c, b>> \o msg
      BY <1>3, <2>1, ReplaceFirst
    <2> QED BY <2>2 DEF b, c
  <1>5. Signing(k)'
    BY <1>1, <1>2, <1>4 DEF Signing
  <1>6. SignedInv'
    BY <1>1 DEF Ed25519Inv, SignedInv
  <1> QED BY <1>1, <1>5, <1>6 DEF Ed25519Inv, DoingOK, SigningInv, OpeningInv, OpensExactlySigned

LEMMA HashToSignKeeps ==
  ASSUME Ed25519Inv, HashToSign
  PROVE  Ed25519Inv'
  <1>1. /\ doing = "hram" /\ doing' = "S" /\ UNCHANGED <<signed, msg, sk, nonce>>
        /\ sm' = [sm EXCEPT ![2] = sk[2]] /\ hram' = Sha512(sm')
    BY DEF HashToSign, playground
  <1> PICK k \in Seeds : Signing(k)
    BY <1>1 DEF Ed25519Inv, SigningInv
  <1>2. /\ sk = <<Seed(k), Public(k)>> /\ msg \in Messages /\ sm = <<PointOf(nonce), Prefix(k)>> \o msg
        /\ nonce = NonceOf(k, msg)
    BY <1>1 DEF Signing
  <1>3. msg \in Seq(Slots) /\ sk[2] = Public(k)
    BY <1>2, MessagesTyped
  <1>4. sm' = <<PointOf(nonce), Public(k)>> \o msg
    <2> DEFINE a == PointOf(nonce)
               b == Prefix(k)
               c == Public(k)
    <2>1. sm = <<a, b>> \o msg /\ sm' = [sm EXCEPT ![2] = c]
      BY <1>1, <1>2, <1>3
    <2> HIDE DEF a, b, c
    <2>2. sm' = <<a, c>> \o msg
      BY <1>3, <2>1, ReplaceSecond
    <2> QED BY <2>2 DEF a, c
  <1>5. hram' = HashOf(nonce, k, msg)
    BY <1>1, <1>4 DEF HashOf
  <1>6. Signing(k)'
    BY <1>1, <1>2, <1>4, <1>5 DEF Signing
  <1>7. SignedInv'
    BY <1>1 DEF Ed25519Inv, SignedInv
  <1> QED BY <1>1, <1>6, <1>7 DEF Ed25519Inv, DoingOK, SigningInv, OpeningInv, OpensExactlySigned

LEMMA PutSKeeps ==
  ASSUME Ed25519Inv, PutS
  PROVE  Ed25519Inv'
  <1>1. /\ doing = "S" /\ doing' = "signed"
        /\ sm' = [sm EXCEPT ![2] = SlotS(hram, sk[1][2], nonce, 0)]
        /\ signed' = signed \cup {[seed |-> sk[1][2], msg |-> msg, sm |-> sm']}
    BY DEF PutS
  <1> PICK k \in Seeds : Signing(k)
    BY <1>1 DEF Ed25519Inv, SigningInv
  <1>2. /\ sk = <<Seed(k), Public(k)>> /\ msg \in Messages /\ sm = <<PointOf(nonce), Public(k)>> \o msg
        /\ nonce = NonceOf(k, msg) /\ hram = HashOf(nonce, k, msg)
    BY <1>1 DEF Signing
  <1>3. msg \in Seq(Slots) /\ sk[1][2] = k
    BY <1>2, MessagesTyped DEF Seed
  <1>4. sm' = Signature(k, msg)
    <2> DEFINE a == PointOf(nonce)
               b == Public(k)
               c == SlotS(hram, k, nonce, 0)
    <2>1. sm = <<a, b>> \o msg /\ sm' = [sm EXCEPT ![2] = c]
      BY <1>1, <1>2, <1>3
    <2> HIDE DEF a, b, c
    <2>2. sm' = <<a, c>> \o msg
      BY <1>3, <2>1, ReplaceSecond
    <2>3. a = PointOf(NonceOf(k, msg)) /\ c = SOf(k, msg)
      BY <1>2 DEF a, c, SOf
    <2> QED BY <2>2, <2>3 DEF Signature
  <1>5. SignedInv'
    <2> DEFINE new == [seed |-> k, msg |-> msg, sm |-> sm']
    <2>1. signed' = signed \cup {new} /\ new.seed = k /\ new.msg = msg /\ new.sm = Signature(k, msg)
      BY <1>1, <1>3, <1>4
    <2> HIDE DEF new
    <2>2. \A e \in signed' : e.seed \in Seeds /\ e.msg \in Messages /\ e.sm = Signature(e.seed, e.msg)
      BY <1>2, <2>1 DEF Ed25519Inv, SignedInv
    <2> QED BY <2>2 DEF SignedInv
  <1> QED BY <1>1, <1>5 DEF Ed25519Inv, DoingOK, SigningInv, OpeningInv, OpensExactlySigned

-----------------------------------------------------------------------------
(* The steps of opening *)

LEMMA OpenableSame == ASSUME UNCHANGED signed PROVE Openable' = Openable
  BY DEF Openable

LEMMA OpenStarts ==
  ASSUME Ed25519Inv, NEW buffer \in Openable, NEW public \in {Public(k) : k \in Seeds} \cup {Garbage},
         Open(buffer, public)
  PROVE  Ed25519Inv'
  <1>1. /\ doing' = "unpack" /\ UNCHANGED signed /\ sm' = buffer /\ pk' = public /\ mlen' = -1
        /\ output' = [k \in 1..Len(buffer) |-> Garbage]
    BY DEF Open
  <1>2. Openable' = Openable
    BY <1>1, OpenableSame
  <1>3. OpeningInv'
    <2>1. sm' \in Openable' /\ pk' \in {Public(k) : k \in Seeds} \cup {Garbage}
      BY <1>1, <1>2
    <2>2. output' = [k \in 1..Len(sm') |-> Garbage]
      BY <1>1
    <2> QED BY <1>1, <2>1, <2>2 DEF OpeningInv
  <1>4. SignedInv'
    BY <1>1 DEF Ed25519Inv, SignedInv
  <1> QED BY <1>1, <1>3, <1>4 DEF Ed25519Inv, DoingOK, SigningInv, OpensExactlySigned

LEMMA RejectKeeps ==
  ASSUME Ed25519Inv, Reject
  PROVE  Ed25519Inv'
  <1>1. /\ doing = "unpack" /\ doing' = "opened" /\ ret' = -1 /\ (Len(sm) < 2 \/ pk[1] # "public")
        /\ UNCHANGED <<signed, sm, pk, output, mlen>>
    BY DEF Reject
  <1>2. mlen = -1 /\ output = [k \in 1..Len(sm) |-> Garbage] /\ sm \in Openable /\ SignedInv
    BY <1>1 DEF Ed25519Inv, OpeningInv
  <1>3. Len(sm) \in Nat
    <2> PICK X : sm \in Seq(X)
      BY <1>2, OpenableTyped
    <2> QED OBVIOUS
  <1>4. Honest = {}
    BY <1>1, <1>3, Free DEF Honest
  <1>5. Honest' = {} /\ ret' # 0 /\ mlen' = -1
    BY <1>1, <1>2, <1>4 DEF Honest
  <1>6. \A k \in 1..(Len(sm') - 2) : output'[k] \in {Zeroed, Garbage}
    BY <1>1, <1>2, <1>3
  <1>7. OpensExactlySigned'
    BY <1>5, <1>6 DEF OpensExactlySigned, Honest
  <1>8. SignedInv'
    BY <1>1, <1>2 DEF SignedInv
  <1> QED BY <1>1, <1>7, <1>8 DEF Ed25519Inv, DoingOK, SigningInv, OpeningInv

LEMMA HashToOpenKeeps ==
  ASSUME Ed25519Inv, HashToOpen
  PROVE  Ed25519Inv'
  <1>1. /\ doing = "unpack" /\ doing' = "verify" /\ Len(sm) >= 2 /\ pk[1] = "public"
        /\ output' = playground(sm, pk) /\ hram' = Sha512(output')
        /\ UNCHANGED <<signed, sm, pk, mlen>>
    BY DEF HashToOpen
  <1>2. OpeningInv'
    <2>1. /\ sm \in Openable /\ pk \in {Public(k) : k \in Seeds} \cup {Garbage} /\ mlen = -1
          /\ Openable' = Openable
      BY <1>1, OpenableSame DEF Ed25519Inv, OpeningInv
    <2>2. playground(sm, pk)' = playground(sm, pk)
      BY <1>1 DEF playground
    <2> QED BY <1>1, <2>1, <2>2 DEF OpeningInv
  <1>3. SignedInv'
    BY <1>1 DEF Ed25519Inv, SignedInv
  <1> QED BY <1>1, <1>2, <1>3 DEF Ed25519Inv, DoingOK, SigningInv, OpensExactlySigned

LEMMA VerifyKeeps ==
  ASSUME Ed25519Inv, Verify
  PROVE  Ed25519Inv'
  <1>1. /\ doing = "verify" /\ doing' = "opened" /\ UNCHANGED <<signed, sm, pk, hram>>
        /\ output' = [k \in 1..Len(output) |->
              IF k > Len(sm) - 2 THEN output[k] ELSE IF sm[1] = Computed THEN sm[k + 2] ELSE Zeroed]
        /\ IF sm[1] = Computed THEN mlen' = Len(sm) - 2 /\ ret' = 0 ELSE ret' = -1 /\ UNCHANGED mlen
    BY DEF Verify
  <1>2. /\ sm \in Openable /\ Len(sm) >= 2 /\ output = playground(sm, pk) /\ hram = Sha512(playground(sm, pk))
        /\ mlen = -1 /\ SignedInv
    BY <1>1 DEF Ed25519Inv, OpeningInv
  <1>3. sm[1] = Computed <=> Honest # {}
    BY <1>2, HonestIsComputed
  <1> PICK X : sm \in Seq(X)
    BY <1>2, OpenableTyped
  <1> DEFINE n == Len(sm)
  <1>4. n \in Nat /\ n >= 2 /\ Len(output) = n
    BY <1>2 DEF playground
  <1>5. Honest' = Honest
    BY <1>1 DEF Honest
  <1>6. CASE sm[1] = Computed
    <2>1. mlen' = n - 2 /\ ret' = 0
      BY <1>1, <1>6
    <2>2. output' = [k \in 1..n |-> IF k > n - 2 THEN output[k] ELSE sm[k + 2]]
      BY <1>1, <1>4, <1>6
    <2>3. SubSeq(output', 1, n - 2) = SubSeq(sm, 3, n)
      <3> DEFINE l == SubSeq(output', 1, n - 2)
                 r == SubSeq(sm, 3, n)
                 v(k) == IF k > n - 2 THEN output[k] ELSE sm[k + 2]
      <3>0. output' = [k \in 1..n |-> v(k)]
        BY <2>2
      <3>1. output' \in Seq({v(k) : k \in 1..n}) /\ Len(output') = n
        <4> HIDE DEF v, n
        <4> QED BY <1>4, <3>0
      <3>2. l \in Seq({v(k) : k \in 1..n}) /\ Len(l) = n - 2 /\ \A k \in 1..(n - 2) : l[k] = output'[k]
        BY <1>4, <3>1
      <3>3. r \in Seq(X) /\ Len(r) = n - 2 /\ \A k \in 1..(n - 2) : r[k] = sm[k + 2]
        BY <1>4
      <3>4. \A k \in 1..(n - 2) : output'[k] = sm[k + 2]
        BY <1>4, <2>2
      <3> HIDE DEF l, r, v
      <3>5. l = r
        BY <3>2, <3>3, <3>4, SameSequence
      <3> QED BY <3>5 DEF l, r
    <2>4. \A e \in Honest : SubSeq(sm, 3, n) = e.msg
      BY DEF Honest
    <2>5. OpensExactlySigned'
      BY <1>1, <1>3, <1>5, <1>6, <2>1, <2>3, <2>4 DEF OpensExactlySigned, Honest
    <2> QED BY <1>1, <1>2, <2>5 DEF Ed25519Inv, DoingOK, SignedInv, SigningInv, OpeningInv
  <1>7. CASE sm[1] # Computed
    <2>1. mlen' = -1 /\ ret' = -1
      BY <1>1, <1>2, <1>7
    <2>2. \A k \in 1..(n - 2) : output'[k] = Zeroed
      BY <1>1, <1>4, <1>7
    <2>3. Honest' = {} /\ ret' # 0 /\ mlen' = -1
      BY <1>3, <1>5, <1>7, <2>1
    <2>4. \A k \in 1..(Len(sm') - 2) : output'[k] \in {Zeroed, Garbage}
      BY <1>1, <2>2
    <2>5. OpensExactlySigned'
      BY <2>3, <2>4 DEF OpensExactlySigned, Honest
    <2> QED BY <1>1, <1>2, <2>5 DEF Ed25519Inv, DoingOK, SignedInv, SigningInv, OpeningInv
  <1> QED BY <1>6, <1>7

LEMMA ReturnKeeps ==
  ASSUME Ed25519Inv, Return
  PROVE  Ed25519Inv'
  BY DEF Return, Ed25519Inv, DoingOK, SignedInv, SigningInv, OpeningInv, OpensExactlySigned

LEMMA StutterKeeps ==
  ASSUME Ed25519Inv, UNCHANGED dvars
  PROVE  Ed25519Inv'
  <1>1. UNCHANGED <<signed, sm, msg, sk, pk, nonce, hram, output, mlen, ret, doing>> /\ Openable' = Openable
    BY OpenableSame DEF dvars
  <1>2. DoingOK' /\ SignedInv'
    BY <1>1 DEF Ed25519Inv, DoingOK, SignedInv
  <1>3. SigningInv'
    BY <1>1 DEF Ed25519Inv, SigningInv, Signing
  <1>4. OpeningInv'
    BY <1>1 DEF Ed25519Inv, OpeningInv, playground
  <1>5. OpensExactlySigned'
    BY <1>1 DEF Ed25519Inv, OpensExactlySigned
  <1> QED BY <1>2, <1>3, <1>4, <1>5 DEF Ed25519Inv

LEMMA Ed25519Start == Ed25519Init => Ed25519Inv
  BY DEF Ed25519Init, Ed25519Inv, DoingOK, SignedInv, SigningInv, OpeningInv, OpensExactlySigned

LEMMA Ed25519Invariant == Ed25519Spec => []Ed25519Inv
  <1>1. Ed25519Inv /\ [Ed25519Step]_dvars => Ed25519Inv'
    BY SignStarts, HashNonceKeeps, PutRKeeps, HashToSignKeeps, PutSKeeps, OpenStarts, RejectKeeps,
       HashToOpenKeeps, VerifyKeeps, ReturnKeeps, StutterKeeps DEF Ed25519Step
  <1> QED BY <1>1, Ed25519Start, PTL DEF Ed25519Spec

(* A buffer is opened exactly if it is one that was signed with the key it *)
(* is opened with, and only then the message comes out: whatever was put   *)
(* together from R, S and messages (crypto_sign_ed25519_open).             *)
THEOREM OpensOnlySigned == Ed25519Spec => []OpensExactlySigned
  <1>1. Ed25519Inv => OpensExactlySigned
    BY DEF Ed25519Inv
  <1> QED BY <1>1, Ed25519Invariant, PTL

(* No two messages are signed with one key and the same R: the nonce is    *)
(* the hash of the secret prefix and the message (crypto_sign_ed25519).    *)
THEOREM NoncesAlwaysDiffer == Ed25519Spec => []NoncesDiffer
  <1>1. Ed25519Inv => NoncesDiffer
    <2> SUFFICES ASSUME Ed25519Inv, NEW e \in signed, NEW f \in signed, e.seed = f.seed, e.sm[1] = f.sm[1]
                 PROVE  e.msg = f.msg
      BY DEF NoncesDiffer
    <2>1. e.msg \in Seq(Slots) /\ f.msg \in Seq(Slots)
          /\ e.sm[1] = PointOf(NonceOf(e.seed, e.msg)) /\ f.sm[1] = PointOf(NonceOf(f.seed, f.msg))
      BY SignatureParts DEF Ed25519Inv
    <2>2. <<Prefix(e.seed)>> \o e.msg = <<Prefix(e.seed)>> \o f.msg
      <3> DEFINE x == <<Prefix(e.seed)>> \o e.msg
                 y == <<Prefix(e.seed)>> \o f.msg
      <3>1. PointOf(Sha512(x)) = PointOf(Sha512(y))
        BY <2>1 DEF NonceOf
      <3> HIDE DEF x, y
      <3>2. x = y
        BY <3>1, Free
      <3> QED BY <3>2 DEF x, y
    <2> QED BY <2>1, <2>2, OneTextSame
  <1> QED BY <1>1, Ed25519Invariant, PTL
=============================================================================
