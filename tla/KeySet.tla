------------------------------- MODULE KeySet ------------------------------
(* What ohash.h promises its caller: a set of keys.  A lookup says whether *)
(* the key is in the set; after it, and before anything else, the caller   *)
(* may insert the key that was absent or remove the one that was found.    *)
CONSTANTS Keys, NoKey   \* NoKey is no key

VARIABLES set, key, answer

vars == <<set, key, answer>>

Init == set = {} /\ key = NoKey /\ answer = "none"

Ask(k) ==
  /\ answer # "asked"
  /\ key' = k /\ answer' = "asked"
  /\ UNCHANGED set

Answer ==
  /\ answer = "asked"
  /\ answer' = IF key \in set THEN "found" ELSE "absent"
  /\ UNCHANGED <<set, key>>

Insert ==
  /\ answer = "absent"
  /\ set' = set \cup {key}
  /\ answer' = "none" /\ key' = NoKey

Remove ==
  /\ answer = "found"
  /\ set' = set \ {key}
  /\ answer' = "none" /\ key' = NoKey

(* The caller goes on without either.                                      *)
Forget ==
  /\ answer \in {"found", "absent"}
  /\ answer' = "none" /\ key' = NoKey
  /\ UNCHANGED set

Next == (\E k \in Keys : Ask(k)) \/ Answer \/ Insert \/ Remove \/ Forget

Spec == Init /\ [][Next]_vars
=============================================================================
