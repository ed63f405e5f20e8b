------------------------------- MODULE Powers -------------------------------
(* The powers of two, as a recursive function: the sizes of words and bytes*)
(* in Sha2Transform and Blowfish, and of limbs in Field and Scalar.        *)
EXTENDS Integers

Power[n \in Nat] == IF n = 0 THEN 1 ELSE 2 * Power[n - 1]
=============================================================================
