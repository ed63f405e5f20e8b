-------------------------------- MODULE Field -------------------------------
(* fe25519.c: arithmetic modulo 2^255 - 19 on 32 limbs of eight bits, which*)
(* are carried and folded only as much as the next operation needs. Here   *)
(* there are N limbs of LimbBits bits, the top one of a bit less, and the  *)
(* prime is that power of 2 less C.                                        *)
EXTENDS Limbs

CONSTANTS
  N, LimbBits, C,
  Unpacked,  \* values that are read from 32 bytes
  Moduli     \* exponents are compared modulo these

Base == Power[LimbBits]
Half == Power[LimbBits - 1]
P == Power[N * LimbBits - 1] - C
Limbs == 0..(N - 1)

(* 2 * p in limbs leaves none negative that a limb is subtracted from; and *)
(* what two passes fold of a product, at most 6 * C * N + 2 times 2^255,   *)
(* fits below the top limb.                                                *)
ASSUME FieldAssumption ==
  /\ N \in Nat /\ N >= 4 /\ LimbBits \in Nat /\ LimbBits >= 3
  /\ C \in Nat \ {0} /\ 2 * C <= Base + 1
  /\ C * (6 * C * N + 2) <= Power[LimbBits * (N - 1)]
  /\ Unpacked \subseteq Nat
  /\ \A M \in Moduli : M \in 22..Power[15]

VARIABLES
  fe,       \* an element
  residue,  \* ghost: what it stands for modulo p
  last      \* the operation it is the result of, or "none"

fvars == <<fe, residue, last>>

(* The limbs of p: 237, 255 and so on, and 127 at the top.                 *)
PLimb(i) == IF i = 0 THEN Base - C ELSE IF i = N - 1 THEN Half - 1 ELSE Base - 1
Value(v) == ValueOf(v, N, LimbBits)

-----------------------------------------------------------------------------
(* What is above the top limb is folded into the lowest, and carried up.   *)
Pass(v) ==
  Carried([v EXCEPT ![0] = @ + C * (v[N - 1] \div Half), ![N - 1] = @ % Half], Base)

reduce_add_sub(v) == Pass(Pass(Pass(Pass(v))))

(* Mutant of reduce_mul: a pass too few.                                   *)
reduce_mul_once(v) == Pass(v)
reduce_mul(v) == Pass(Pass(v))

(* p is subtracted once, if the limbs are those of p or of more.           *)
fe25519_freeze(v) ==
  IF v[N - 1] = Half - 1 /\ (\A i \in 1..(N - 2) : v[i] = Base - 1) /\ v[0] >= PLimb(0)
    THEN [i \in Limbs |-> v[i] - PLimb(i)]
    ELSE v

fe25519_unpack(x) ==
  [LimbsOf(x, N, LimbBits) EXCEPT ![N - 1] = @ % Half]
fe25519_pack(v) == Value(fe25519_freeze(v))

fe25519_add(x, y) == reduce_add_sub([i \in Limbs |-> x[i] + y[i]])
fe25519_sub(x, y) == reduce_add_sub([i \in Limbs |-> x[i] + 2 * PLimb(i) - y[i]])
fe25519_neg(x) == fe25519_sub([i \in Limbs |-> 0], x)

(* A place above the top folds into the one N below it.                    *)
fe25519_mul(x, y) ==
  reduce_mul([k \in Limbs |-> Column(x, y, k) + 2 * C * Column(x, y, k + N)])

-----------------------------------------------------------------------------
(* Exponents of x modulo M: n squares double n times, a product adds.      *)
Squared(e, n, M) ==
  LET power[k \in 0..n] == IF k < 15 THEN Power[k] % M ELSE (Power[15] * power[k - 15]) % M
  IN ((e % M) * power[n]) % M

z11(M) == Squared(1, 3, M) + 1 + Squared(1, 1, M)
z2_5_0(M) == Squared(z11(M), 1, M) + Squared(1, 3, M) + 1
z2_10_0(M) == Squared(z2_5_0(M), 5, M) + z2_5_0(M)
z2_20_0(M) == Squared(z2_10_0(M), 10, M) + z2_10_0(M)
z2_50_0(M) == Squared(Squared(z2_20_0(M), 20, M) + z2_20_0(M), 10, M) + z2_10_0(M)
z2_100_0(M) == Squared(z2_50_0(M), 50, M) + z2_50_0(M)
z2_250_0(M) == Squared(Squared(z2_100_0(M), 100, M) + z2_100_0(M), 50, M) + z2_50_0(M)
fe25519_invert(M) == (Squared(z2_250_0(M), 5, M) + z11(M)) % M
fe25519_pow2523(M) == (Squared(z2_250_0(M), 2, M) + 1) % M

-----------------------------------------------------------------------------
(* Elements that are read, and products of them, are the operands.         *)
Read == {fe25519_unpack(x) : x \in Unpacked}
Operands == Read \cup {fe25519_mul(x, y) : x \in Read, y \in Read}

FieldInit ==
  /\ fe \in Read
  /\ residue = Value(fe) % P
  /\ last = "unpack"

Add(y) == fe' = fe25519_add(fe, y) /\ residue' = (residue + Value(y)) % P /\ last' = "add"
Sub(y) == fe' = fe25519_sub(fe, y) /\ residue' = (residue - Value(y)) % P /\ last' = "sub"
Neg == fe' = fe25519_neg(fe) /\ residue' = (-residue) % P /\ last' = "sub"
Mul(y) == fe' = fe25519_mul(fe, y) /\ residue' = (residue * (Value(y) % P)) % P /\ last' = "mul"
Square == fe' = fe25519_mul(fe, fe) /\ residue' = (residue * residue) % P /\ last' = "mul"

FieldStep == (\E y \in Operands : Add(y) \/ Sub(y) \/ Mul(y)) \/ Neg \/ Square

FieldSpec == FieldInit /\ [][FieldStep]_fvars

-----------------------------------------------------------------------------
(* After any sequence of operations an element stands for the right residue*)
(* and its limbs are small enough for the next one, those of sums below    *)
(* 2^255; and what is below 2^255 is frozen to the residue itself. And     *)
(* fe25519_invert and fe25519_pow2523 raise to p - 2 and to (p - 5) / 8 for*)
(* p = 2^255 - 19: the exponents are below 2^256 and agree modulo numbers  *)
(* whose product is above that, so they are equal. No state matters to it: *)
(* it is looked at where an element is read.                               *)
FieldIsExact ==
  last # "none" =>
    /\ Value(fe) % P = residue
    /\ \A k \in Limbs : fe[k] \in 0..(IF k = N - 1 THEN Half ELSE Base - 1)
    /\ last # "mul" => Value(fe) < P + C
    /\ Value(fe) < P + C => fe25519_pack(fe) = residue
    /\ last = "unpack" =>
         \A M \in Moduli :
           /\ fe25519_invert(M) = (Squared(1, 255, M) - 21) % M
           /\ fe25519_pow2523(M) = (Squared(1, 252, M) - 3) % M

(* fe25519_pack assumes its input is reduced below 2^255 (fe25519.c:105);  *)
(* ge25519_pack hands it a product.                                        *)
PackedIsReduced == last = "mul" => Value(fe) < P + C

=============================================================================
