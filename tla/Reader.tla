------------------------------- MODULE Reader ------------------------------
(* What the commands expect of reading a message into memory: its bytes,   *)
(* piece by piece and in order, up to the end of the file, which may change*)
(* at any time; or no message at all.                                      *)
EXTENDS Naturals, Sequences

CONSTANT Contents

VARIABLES file, msg, outcome

vars == <<file, msg, outcome>>

Init == file \in Contents /\ msg = << >> /\ outcome = "none"

(* What is taken is what the file holds at that moment.                    *)
Take ==
  /\ outcome = "none"
  /\ \E n \in 1..(Len(file) - Len(msg)) : msg' = msg \o SubSeq(file, Len(msg) + 1, Len(msg) + n)
  /\ UNCHANGED <<file, outcome>>

End ==
  /\ outcome = "none" /\ Len(msg) >= Len(file)
  /\ outcome' = "message"
  /\ UNCHANGED <<file, msg>>

Refuse == outcome = "none" /\ outcome' = "refused" /\ UNCHANGED <<file, msg>>

Change == file' \in Contents /\ UNCHANGED <<msg, outcome>>

Next == Take \/ End \/ Refuse \/ Change

Spec == Init /\ [][Next]_vars
=============================================================================
