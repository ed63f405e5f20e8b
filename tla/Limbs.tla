-------------------------------- MODULE Limbs -------------------------------
(* Numbers as the loops of fe25519.c and sc25519.c hold them: functions    *)
(* from 0..(n - 1) to limbs of some bits each, the least significant first,*)
(* that may be larger until they are carried.                              *)
EXTENDS Powers

(* The sum of the first n values of f.                                     *)
Total(f, n) ==
  LET sum[k \in 0..n] == IF k = 0 THEN 0 ELSE sum[k - 1] + f[k - 1] IN sum[n]

(* What the n lowest limbs stand for.                                      *)
ValueOf(v, n, bits) == Total([i \in 0..(n - 1) |-> v[i] * Power[bits * i]], n)

(* The n lowest limbs of a number.                                         *)
LimbsOf(x, n, bits) == [i \in 0..(n - 1) |-> (x \div Power[bits * i]) % Power[bits]]

(* The k-th place of a product, before any carry.                          *)
Limb(x, i) == IF i \in DOMAIN x THEN x[i] ELSE 0
Column(x, y, k) == Total([i \in 0..k |-> Limb(x, i) * Limb(y, k - i)], k + 1)

(* Each limb is cut to the base and the rest is carried up, but the top is *)
(* left as large as it gets.                                               *)
Carried(v, base) ==
  LET carry[i \in DOMAIN v] == IF i = 0 THEN 0 ELSE (v[i - 1] + carry[i - 1]) \div base
  IN [i \in DOMAIN v |->
       IF i + 1 \in DOMAIN v THEN (v[i] + carry[i]) % base ELSE v[i] + carry[i]]

(* x - y limb by limb, and what is borrowed past the top.                  *)
Borrowed(x, y, n, base) ==
  LET b[i \in 0..n] ==
        IF i = 0 THEN 0 ELSE IF x[i - 1] < y[i - 1] + b[i - 1] THEN 1 ELSE 0
  IN [limbs |-> [i \in 0..(n - 1) |-> x[i] - (y[i] + b[i]) + base * b[i + 1]],
      borrow |-> b[n]]
=============================================================================
