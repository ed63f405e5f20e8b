-------------------------------- MODULE Scalar ------------------------------
(* sc25519.c: arithmetic modulo the group order m on 32 limbs of eight     *)
(* bits. Here there are K limbs to the base 2^ScalarBits.                  *)
EXTENDS Limbs, Sequences

CONSTANTS
  ScalarBits, K, m,
  Digests  \* the values that are read from twice as many limbs

ScBase == Power[ScalarBits]

VARIABLES
  sc,     \* a scalar
  scalar  \* ghost: its value, or -1 if there is none

svars == <<sc, scalar>>

mLimbs == LimbsOf(m, K, ScalarBits)
mu == LimbsOf(Power[ScalarBits * (2 * K)] \div m, K + 1, ScalarBits)

(* At most this is in the places below K - 1 of a product by mu, which are *)
(* not computed.                                                           *)
Neglected ==
  LET largest == [j \in 0..K |-> ScBase - 1]
  IN ValueOf([k \in 0..(K - 2) |-> Column(mu, largest, k)], K - 1, ScalarBits)

(* The top limb of m is not zero, and 3 * m fits the limbs. Barrett's      *)
(* quotient is too small by less than 3: what the limbs below K - 1 of x   *)
(* are of m, what is lost in mu and the places that are not computed are   *)
(* less than 2 together.                                                   *)
ASSUME ScalarAssumption ==
  /\ ScalarBits \in Nat \ {0, 1} /\ K \in Nat \ {0, 1}
  /\ m \in Nat /\ Power[ScalarBits * (K - 1)] < m /\ 3 * m < Power[ScalarBits * K]
  /\ LET top == Power[ScalarBits * (K + 1)]
     IN (Power[ScalarBits * (K - 1)] - 1) * top + (Power[ScalarBits * (2 * K)] % m) * (top - 1)
          + m * Neglected <= 2 * m * top
  /\ Digests \subseteq 0..(Power[ScalarBits * (2 * K)] - 1)

-----------------------------------------------------------------------------
reduce_add_sub_m(r) ==
  LET t == Borrowed(r, mLimbs, K, ScBase) IN IF t.borrow = 1 THEN r ELSE t.limbs

(* The two lowest limbs of the quotient are only carried, the columns below*)
(* them are not computed, and the remainder is taken of the K lowest limbs.*)
remainder(x) ==
  LET high == [j \in 0..K |-> x[j + K - 1]]
      carry1 == Column(mu, high, K - 1) \div ScBase
      carry2 == (Column(mu, high, K) + carry1) \div ScBase
      q3 == [j \in 0..K |-> Column(mu, high, K + 1 + j) + IF j = 0 THEN carry2 ELSE 0]
      r2 == Carried([k \in 0..K |-> Column(mLimbs, q3, k)], ScBase)
  IN Borrowed(x, r2, K, ScBase).limbs

(* Mutant of barrett_reduce: m is subtracted once at most.                 *)
barrett_reduce_once(x) == reduce_add_sub_m(remainder(x))
barrett_reduce(x) == reduce_add_sub_m(reduce_add_sub_m(remainder(x)))

sc25519_from64bytes(x) == barrett_reduce(LimbsOf(x, 2 * K, ScalarBits))
sc25519_from32bytes(x) == sc25519_from64bytes(x % Power[ScalarBits * K])

sc25519_add(x, y) ==
  reduce_add_sub_m(Carried([i \in 0..(K - 1) |-> x[i] + y[i]], ScBase))

sc25519_mul(x, y) ==
  barrett_reduce(Carried([k \in 0..(2 * K - 1) |-> Column(x, y, k)], ScBase))

-----------------------------------------------------------------------------
(* A digit of n bits starts in one limb and may go on in those above.      *)
Bits(s, n, k) ==
  LET from == (n * k) \div ScalarBits
      shift == (n * k) % ScalarBits
      limb(i) == IF i < K THEN s[i] ELSE 0
  IN ((limb(from) \div Power[shift]) + Power[ScalarBits - shift] * limb(from + 1)) % Power[n]

Windows == (ScalarBits * K + 2) \div 3
Pairs == (ScalarBits * K + 1) \div 2

(* Digits of three bits, made signed from the lowest on: those of 4 and    *)
(* more lend 8 from the next, and the top takes what is left.              *)
sc25519_window3(s) ==
  LET carry[i \in 0..(Windows - 1)] ==
        IF i = 0 THEN 0 ELSE (Bits(s, 3, i - 1) + carry[i - 1] + 4) \div 8
      r(i) == Bits(s, 3, i) + carry[i]
  IN [i \in 0..(Windows - 1) |-> IF i = Windows - 1 THEN r(i) ELSE ((r(i) + 4) % 8) - 4]

(* Two bits of s1 and above them two of s2.                                *)
sc25519_2interleave2(s1, s2) ==
  [i \in 0..(Pairs - 1) |-> Bits(s1, 2, i) + 4 * Bits(s2, 2, i)]

-----------------------------------------------------------------------------
ScalarInit ==
  \E x \in Digests :
    /\ \/ sc = sc25519_from64bytes(x)
       \/ x < Power[ScalarBits * K] /\ sc = sc25519_from32bytes(x)
    /\ scalar = x % m

(* The operands are reduced: they are results of these operations.         *)
AddScalar(y) == sc' = sc25519_add(sc, LimbsOf(y, K, ScalarBits)) /\ scalar' = (scalar + y) % m
MulScalar(y) == sc' = sc25519_mul(sc, LimbsOf(y, K, ScalarBits)) /\ scalar' = (scalar * y) % m

ScalarStep == \E y \in 0..(m - 1) : AddScalar(y) \/ MulScalar(y)

ScalarSpec == ScalarInit /\ [][ScalarStep]_svars

-----------------------------------------------------------------------------
(* Whatever a scalar is made from, it is the right residue and reduced,    *)
(* its signed digits stand for it and each has an entry in the table of    *)
(* multiples, and so do the pairs of digits of two scalars.                *)
ScalarsReduced ==
  scalar # -1 =>
    /\ sc = LimbsOf(scalar, K, ScalarBits) /\ scalar < m
    /\ LET w == sc25519_window3(sc)
       IN ValueOf(w, Windows, 3) = scalar /\ \A k \in DOMAIN w : w[k] \in -4..3
    /\ \A y \in 0..(m - 1) :
         LET b == sc25519_2interleave2(sc, LimbsOf(y, K, ScalarBits))
         IN /\ ValueOf([k \in DOMAIN b |-> b[k] % 4], Pairs, 2) = scalar
            /\ ValueOf([k \in DOMAIN b |-> b[k] \div 4], Pairs, 2) = y
=============================================================================
