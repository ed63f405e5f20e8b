------------------------------ MODULE MCZSign ------------------------------
(* Archives for ZSign that were signed before, to be signed in place.      *)
EXTENDS ZSign

CONSTANTS x, y

Payloads == {<< >>, <<x>>, <<x, Nul, y>>, <<x, y, y, x>>, <<y, x, x, Nul, x>>}
SignedInputs == {Archive(p) : p \in Payloads}
TheOutputs == {<<y, y, y>>}
=============================================================================
