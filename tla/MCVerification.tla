-------------------------- MODULE MCVerification ---------------------------
(* What is verified beyond a whole file. For ZVerify: archives of a payload*)
(* of two blocks and a half and of one of two whole blocks, as they were   *)
(* signed, cut short at every byte, and with other payloads, comments,     *)
(* flags and names. For Checksums: lists of up to three lines over two     *)
(* files, with duplicates, bad lines, unknown algorithms and invalid       *)
(* hashes, and up to two arguments. One of the two is at work in each      *)
(* behaviour.                                                              *)
EXTENDS ZVerify, Checksums

CONSTANTS x, y, f, g, v, w

Payload1 == <<x, y, y, x, Nul>>
Payload2 == <<y, y, x, x>>
Signing(payload) == [blocks |-> Blocks(payload, 2), size |-> 2]
TheSignings == {Signing(Payload1), Signing(Payload2), Signing(<< >>)}
Forged == Signing(<<x, x, x>>)

Payloads == {Payload1, Payload2, << >>, <<x>>, Payload1 \o <<x>>, Payload2 \o <<x>>,
             <<y, x, y, x, Nul>>, <<y, x, x, Nul>>, <<Nul>>, <<x, x, x>>}
Comments == {Comment(s) : s \in TheSignings \cup {Forged}} \cup {Tail(Comment(Signing(Payload1))), << >>,
             <<SigByte(Signing(Payload1))>> \o Tail(Comment(Signing(Payload2)))}
Headers == {FixedHeader({"COMMENT"}), FixedHeader({"NAME", "COMMENT"}) \o <<x, Nul>>}
Whole == {h \o c \o <<Nul>> \o p : h \in Headers, c \in Comments, p \in Payloads}
Cut == UNION {{SubSeq(s, 1, n) : n \in 0..Len(s)} :
                s \in {h \o Comment(Signing(Payload1)) \o <<Nul>> \o Payload1 : h \in Headers}}
Other == {FixedHeader({"NAME"}) \o <<x, Nul, x>>, FixedHeader({}) \o <<x>>, FixedHeader({"OTHER"}) \o <<x, Nul>>,
          <<x, y, x, y>>}
TheStreams == Whole \cup Cut \cup Other

Good == [file : {f, g}, algo : {"SHA256"}, hash : {v, w}]
Odd == {[file |-> f, algo |-> "OTHER", hash |-> v], [file |-> g, algo |-> "SHA512", hash |-> Invalid], BadLine}
TheMessages ==
  {<< >>} \cup {<<a>> : a \in Good \cup Odd} \cup {<<a, b>> : a \in Good \cup Odd, b \in Good}
    \cup {<<a, b, c>> : a \in Good, b \in Good, c \in Good \cup Odd}
TheArgs == {<< >>, <<f>>, <<f, f>>, <<f, g>>}

-----------------------------------------------------------------------------
ArchiveIdle ==
  /\ stream = << >> /\ pc = "idle" /\ off = 0
  /\ hbuf = << >> /\ sz = Size /\ state = 0 /\ pos = 0 /\ comment = << >>
  /\ residual = 0 /\ buffer = << >> /\ wrote = 0 /\ sha = 0
  /\ out = NoFile
ListIdle ==
  /\ msg = << >> /\ argv = << >> /\ disk = << >> /\ Myh!Init
  /\ cpc = "idle" /\ i = 1 /\ ok = {} /\ edits = 0

MCInit ==
  \/ Init /\ ListIdle
  \/ ArchiveIdle /\ CheckInit

MCNext ==
  \/ pc # "idle" /\ Next /\ UNCHANGED cvars
  \/ cpc # "idle" /\ CheckNext /\ UNCHANGED vars

MCSpec == MCInit /\ [][MCNext]_<<vars, cvars>>
=============================================================================
