---------------------------- MODULE MCZRoundTrip ---------------------------
(* Gzip files for ZRoundTrip: with and without a name and a comment, with  *)
(* payloads around a whole number of blocks of four bytes, truncated and   *)
(* foreign ones; edits; and an old archive in the output file.             *)
EXTENDS ZRoundTrip

CONSTANTS x, y

Payloads == {<< >>, <<x>>, <<x, Nul, y>>, <<x, y, y, x>>, <<y, x, x, Nul, x>>}
Names == {FixedHeader({"NAME"}) \o <<x, Nul>>, FixedHeader({}),
          FixedHeader({"NAME", "COMMENT"}) \o <<x, Nul, y, Nul>>}
TheInputs == {n \o p : n \in Names, p \in Payloads}
               \cup {Archive(<<x, y, y, x>>), FixedHeader({"NAME"}) \o <<x>>, <<x, y, x>>, <<Magic>>}
TheEdits == {FixedHeader({}) \o <<y, x, y, y, y>>, FixedHeader({}) \o <<x, y>>, << >>}
TheOutputs == {Archive(<<y>>)}

(* Every signing of blocks that a file here has, before an edit or after.  *)
Contents == TheInputs \cup TheEdits
TheSignings ==
  LET blocks == {SubSeq(c, i, Smaller(i + 3, Len(c))) : c \in Contents, i \in 3..11} \ {<< >>}
  IN {[blocks |-> b, size |-> 4] : b \in {<< >>} \cup {<<a>> : a \in blocks} \cup {<<a, d>> : a \in {f \in blocks : Len(f) = 4}, d \in blocks}}
=============================================================================
