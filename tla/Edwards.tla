-------------------------------- MODULE Edwards -----------------------------
(* mod_ge25519.c: multiples of points on the curve                         *)
(*   -x^2 + y^2 = 1 + d x^2 y^2                                            *)
(* in extended coordinates. The field is that of a small prime q with the  *)
(* remainder 2^255 - 19 has modulo 8, and m the prime order of the base    *)
(* point, as the group order of sc25519.c is.                              *)
EXTENDS Scalar

CONSTANTS
  q, d,
  base,     \* the base point, <<x, y>>
  Tasks     \* what is multiplied: the records of the variable task

Fq == 0..(q - 1)
OnCurve(x, y) == (y * y - x * x) % q = (1 + d * ((x * x) % q) * ((y * y) % q)) % q

(* d is no square, and neither is a formula below that divides by zero.    *)
ASSUME EdwardsAssumption ==
  /\ q \in Nat /\ q % 8 = 5 /\ \A n \in 2..(q - 1) : q % n # 0
  /\ d \in Fq /\ \A x \in Fq : (x * x) % q # d
  /\ base \in Fq \X Fq /\ OnCurve(base[1], base[2])

VARIABLES
  task,    \* [what, y, par, s1, s2]: the operands, p1 by its encoding
  r,       \* the point that is worked on
  pre,     \* the 16 sums of small multiples of p1 and of the base point
  i,       \* the next digit
  packed,  \* the encoding of the result, <<y, parity>>
  at       \* "idle", "unpack", "refused", "double", "base" or "packed"

evars == <<task, r, pre, i, packed, at>>

Raised(x, n) == LET power[k \in 0..n] == IF k = 0 THEN 1 ELSE (x * power[k - 1]) % q IN power[n]
invert == [z \in Fq |-> Raised(z, q - 2)]
pow2523 == [z \in Fq |-> Raised(z, (q - 5) \div 8)]
sqrtm1 == CHOOSE z \in Fq : (z * z) % q = q - 1

-----------------------------------------------------------------------------
Point(x, y, z, t) == [x |-> x % q, y |-> y % q, z |-> z % q, t |-> t % q]
setneutral == Point(0, 1, 1, 0)

(* p2 has no t: the one that r has stays, whatever it was.                 *)
p1p1_to_p2(p, e) == [Point(e.x * e.t, e.y * e.z, e.z * e.t, 0) EXCEPT !.t = p.t]
p1p1_to_p3(e) == Point(e.x * e.t, e.y * e.z, e.z * e.t, e.x * e.y)

add_p1p1(p, s) ==
  LET a == ((p.y - p.x) * (s.y - s.x)) % q
      b == ((p.x + p.y) * (s.x + s.y)) % q
      c == (((p.t * s.t) % q) * 2 * d) % q
      dd == (2 * p.z * s.z) % q
  IN [x |-> (b - a) % q, t |-> (dd - c) % q, z |-> (dd + c) % q, y |-> (b + a) % q]

dbl_p1p1(p) ==
  LET a == (p.x * p.x) % q
      b == (p.y * p.y) % q
      c == 2 * p.z * p.z
  IN [x |-> ((p.x + p.y) * (p.x + p.y) - a - b) % q, z |-> (b - a) % q,
      t |-> (b - a - c) % q, y |-> (-a - b) % q]

(* The second point is affine, its t is made here.                         *)
ge25519_mixadd2(p, s) ==
  LET a == ((p.y - p.x) * (s.y - s.x)) % q
      b == ((p.y + p.x) * (s.y + s.x)) % q
      c == (p.t * ((s.x * s.y) % q) * 2 * d) % q
      e == b - a
      h == b + a
      f == (2 * p.z - c) % q
      g == (2 * p.z + c) % q
  IN Point(e * f, h * g, g * f, e * h)

-----------------------------------------------------------------------------
(* Affine points, for the table and for what is expected.                  *)
Sum2(A, B) ==
  LET k == (d * ((A[1] * B[1]) % q) * ((A[2] * B[2]) % q)) % q
  IN << ((A[1] * B[2] + A[2] * B[1]) * invert[(1 + k) % q]) % q,
        ((A[2] * B[2] + A[1] * B[1]) * invert[(1 - k) % q]) % q >>
Times(n, A) ==
  LET times[k \in 0..n] == IF k = 0 THEN <<0, 1>> ELSE Sum2(times[k - 1], A) IN times[n]

(* ge25519_base.data: the multiples from 0 to 4 of the base point times 8  *)
(* to the place of the digit.                                              *)
base_multiples_affine ==
  [pos \in 0..(Windows - 1) |-> [j \in 0..4 |-> Times((j * Power[3 * pos]) % m, base)]]

(* The entry for b or -b, if there is one, and its negative for b below 0. *)
choose_t(pos, b) ==
  LET j == IF b \in -4..3 THEN (IF b < 0 THEN -b ELSE b) ELSE 0
      s == base_multiples_affine[pos][j]
  IN [x |-> (IF b < 0 THEN -s[1] ELSE s[1]) % q, y |-> s[2]]

-----------------------------------------------------------------------------
(* The square root of num / den is guessed, corrected by that of -1, and   *)
(* checked; then it is given the parity that was not asked for.            *)
Root(num, den) ==
  LET den3 == (((den * den) % q) * den) % q
      den7 == (((den3 * den3) % q) * den) % q
      guess == (pow2523[(num * den7) % q] * ((num * den3) % q)) % q
      IsRoot(x) == (((x * x) % q) * den) % q = num
  IN {x \in {IF IsRoot(guess) THEN guess ELSE (guess * sqrtm1) % q} : IsRoot(x)}

ge25519_unpackneg_vartime(y, par) ==
  LET num == (y * y - 1) % q
      den == (d * ((y * y) % q) + 1) % q
  IN {LET xx == (IF x % 2 # 1 - par THEN -x ELSE x) % q IN Point(xx, y, 1, xx * y) : x \in Root(num, den)}

ge25519_pack(p) ==
  LET zi == invert[p.z] IN << (p.y * zi) % q, ((p.x * zi) % q) % 2 >>

(* pre[s + 4 * t] is s times p1 and t times p2, for s and t below 4.       *)
precomputed(p1, p2) ==
  LET dbl(p) == p1p1_to_p3(dbl_p1p1(p))
      add(p, s) == p1p1_to_p3(add_p1p1(p, s))
      pre2 == dbl(p1)    pre3 == add(p1, pre2)
      pre5 == add(p1, p2)
      pre8 == dbl(p2)    pre12 == add(p2, pre8)
  IN << p1, pre2, pre3, p2, pre5, add(pre2, p2), add(pre3, p2), pre8, add(p1, pre8),
        dbl(pre5), add(pre3, pre8), pre12, add(p1, pre12), add(pre2, pre12), add(pre3, pre12) >>

(* Mutant of Doubled: t is not made before the addition reads it.          *)
DoubledOnly(p, b) ==
  LET p2 == p1p1_to_p2(p, dbl_p1p1(p))
      e == dbl_p1p1(p2)
      p3 == IF b = 0 THEN p2 ELSE p1p1_to_p2(p2, e)
  IN [r |-> p3, e |-> IF b = 0 THEN e ELSE add_p1p1(p3, pre[b])]

(* r doubled twice and a sum of the table added: r, and e that is still to *)
(* be converted into r.                                                    *)
Doubled(p, b) ==
  LET p2 == p1p1_to_p2(p, dbl_p1p1(p))
      e == dbl_p1p1(p2)
      p3 == IF b = 0 THEN p2 ELSE p1p1_to_p3(e)
  IN [r |-> p3, e |-> IF b = 0 THEN e ELSE add_p1p1(p3, pre[b])]

-----------------------------------------------------------------------------
NoPoint == Point(0, 0, 0, 0)

EdwardsInit ==
  /\ task \in Tasks
  /\ r = NoPoint /\ pre = << >> /\ i = 0 /\ packed = << >>
  /\ at = IF task.what = "double" THEN "unpack" ELSE "base"

s1Limbs == LimbsOf(task.s1, K, ScalarBits)
s2Limbs == LimbsOf(task.s2, K, ScalarBits)

Refuse ==
  /\ at = "unpack"
  /\ ge25519_unpackneg_vartime(task.y, task.par) = {}
  /\ at' = "refused"
  /\ UNCHANGED <<task, r, pre, i, packed>>

(* The table is made, and the top digits choose where to begin.            *)
ge25519_double_scalarmult_vartime ==
  /\ at = "unpack"
  /\ \E p1 \in ge25519_unpackneg_vartime(task.y, task.par) :
       LET b == sc25519_2interleave2(s1Limbs, s2Limbs)[Pairs - 1]
       IN /\ pre' = precomputed(p1, Point(base[1], base[2], 1, base[1] * base[2]))
          /\ r' = IF b = 0 THEN setneutral ELSE pre'[b]
  /\ i' = Pairs - 2
  /\ at' = "double"
  /\ UNCHANGED <<task, packed>>

Double ==
  /\ at = "double" /\ i >= 0
  /\ LET done == Doubled(r, sc25519_2interleave2(s1Limbs, s2Limbs)[i])
     IN r' = IF i # 0 THEN p1p1_to_p2(done.r, done.e) ELSE p1p1_to_p3(done.e)
  /\ i' = i - 1
  /\ UNCHANGED <<task, pre, packed, at>>

ge25519_scalarmult_base ==
  /\ at = "base" /\ i < Windows
  /\ LET s == choose_t(i, sc25519_window3(s1Limbs)[i])
     IN r' = IF i = 0 THEN Point(s.x, s.y, 1, s.x * s.y) ELSE ge25519_mixadd2(r, s)
  /\ i' = i + 1
  /\ UNCHANGED <<task, pre, packed, at>>

Pack ==
  /\ (at = "double" /\ i < 0) \/ (at = "base" /\ i = Windows)
  /\ packed' = ge25519_pack(r)
  /\ at' = "packed"
  /\ UNCHANGED <<task, r, pre, i>>

EdwardsStep ==
  \/ Refuse \/ ge25519_double_scalarmult_vartime \/ Double
  \/ ge25519_scalarmult_base \/ Pack

-----------------------------------------------------------------------------
(* What is packed encodes s2 times the base point less s1 times the point  *)
(* that the encoding stands for, or s1 times the base point, for the group *)
(* law of the curve; and an encoding is refused exactly if no point of the *)
(* curve has its y. The point that is packed is a proper one: t is what x  *)
(* and y make it, for the next sum.                                        *)
PackedIsSum ==
  LET xs == {x \in Fq : OnCurve(x, task.y) /\ (x = 0 \/ x % 2 = task.par)}
      A == << CHOOSE x \in xs : TRUE, task.y % q >>
      negA == << (-A[1]) % q, A[2] >>
      expected == IF task.what = "base" THEN Times(task.s1, base)
                  ELSE Sum2(Times(task.s1, negA), Times(task.s2, base))
  IN /\ at = "refused" => xs = {}
     /\ at = "packed" =>
          /\ task.what = "double" => xs # {}
          /\ packed = << expected[2], expected[1] % 2 >>
          /\ r.z # 0 /\ (r.t * r.z) % q = (r.x * r.y) % q
=============================================================================
