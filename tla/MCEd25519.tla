------------------------------ MODULE MCEd25519 -----------------------------
(* The four layers of the signatures, each by itself: one of them is at    *)
(* work in every behaviour, the others wait in a state of theirs. The field*)
(* has 4 limbs of 3 bits and the prime 2^11 - 3, a scalar 3 limbs of 2 bits*)
(* and the order 17, the order of the base point of the curve modulo 149.  *)
EXTENDS Field, Edwards, Ed25519

(* Elements near 0, near p, near 2^255, and some in between.               *)
TheUnpacked ==
  {0, 1, 2, 3, 77, 512, 683, 1111, 1365, 2042, 2044, 2045, 2046, 2047}

(* The largest primes below 2^15: the product of 18 of them is above 2^256.*)
TheModuli ==
  {32749, 32719, 32717, 32713, 32707, 32693, 32687, 32653, 32647, 32633, 32621, 32611,
   32609, 32603, 32587, 32579, 32573, 32569}

TheDigests == 0..(Power[ScalarBits * (2 * K)] - 1)

(* Every encoding with a few scalars, every pair of scalars with a few     *)
(* points, those of order 1 and 2 among them, and every scalar with the base.   *)
TheBase == <<12, 127>>
TheTasks ==
  [what : {"double"}, y : 0..(q + 6), par : {0, 1}, s1 : {0, 5, 11, 16}, s2 : {0, 3, 13}]
    \cup [what : {"double"}, y : {0, 1, 3, 4, 115, 127, 148}, par : {0, 1}, s1 : 0..(m - 1), s2 : 0..(m - 1)]
    \cup [what : {"base"}, y : {1}, par : {0}, s1 : 0..(m - 1), s2 : {0}]

TheMessages == {<< >>, <<Text(1)>>, <<Text(2)>>, <<Text(1), Text(1)>>, <<Text(1), Text(2)>>, <<Text(2), Text(1)>>}
TheUnsigned ==
  {<< >>, <<Garbage>>, <<Garbage, Garbage>>, <<Garbage, Garbage, Text(1)>>, <<Garbage, Text(1), Text(2)>>}

FieldIdle == fe = fe25519_unpack(0) /\ residue = 0 /\ last = "none"
ScalarIdle == sc = << >> /\ scalar = -1
EdwardsIdle ==
  /\ task = [what |-> "none"] /\ r = NoPoint /\ pre = << >> /\ i = 0 /\ packed = << >>
  /\ at = "idle"

Parts == {"field", "scalar", "curve", "signature"}

VARIABLE part

allvars == <<part, fvars, svars, evars, dvars>>

MCInit ==
  /\ part \in Parts
  /\ IF part = "field" THEN FieldInit ELSE FieldIdle
  /\ IF part = "scalar" THEN ScalarInit ELSE ScalarIdle
  /\ IF part = "curve" THEN EdwardsInit ELSE EdwardsIdle
  /\ Ed25519Init

MCNext ==
  \/ part = "field" /\ FieldStep /\ UNCHANGED <<part, svars, evars, dvars>>
  \/ part = "scalar" /\ ScalarStep /\ UNCHANGED <<part, fvars, evars, dvars>>
  \/ part = "curve" /\ EdwardsStep /\ UNCHANGED <<part, fvars, svars, dvars>>
  \/ part = "signature" /\ Ed25519Step /\ UNCHANGED <<part, fvars, svars, evars>>
  \/ at \in {"packed", "refused"} /\ UNCHANGED allvars

MCSpec == MCInit /\ [][MCNext]_allvars
=============================================================================
