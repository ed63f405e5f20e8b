------------------------------ MODULE GzHeader -----------------------------
(* The gzip header of a signed archive, as readgz_header of zsig.c parses  *)
(* it and zverify and zsign write it, and the signing data in its comment. *)
(*                                                                         *)
(* A byte stands for a byte of the payload or of a name; the ten bytes of  *)
(* the fixed header are HeaderLen bytes, the magic and the flags among     *)
(* them; a hash line is one byte that names its block, and so is the       *)
(* signature, which names the signing it came from.                        *)
EXTENDS Integers, Sequences

CONSTANTS
  Nul,        \* the byte 0
  Magic,      \* the bytes 1f 8b 8
  HeaderLen   \* GZHEADERLENGTH

ASSUME HeaderAssumption == HeaderLen \in Nat /\ HeaderLen >= 2 /\ Nul # Magic

Smaller(m, n) == IF m < n THEN m ELSE n

FlagByte(flags) == [flags |-> flags]
FixedHeader(flags) == <<Magic, FlagByte(flags)>> \o [i \in 1..(HeaderLen - 2) |-> Nul]

(* A signing: the blocks that were hashed, and blocksize.                  *)
Hash(block) == [hash |-> block]
SigByte(signing) == [signed |-> signing]

(* The comment: the signature, then what it signs, the hash lines.         *)
Comment(signing) ==
  <<SigByte(signing)>> \o [i \in 1..Len(signing.blocks) |-> Hash(signing.blocks[i])]

(* The payload cut into blocks, the last one shorter.                      *)
Blocks(payload, size) ==
  [i \in 1..((Len(payload) + size - 1) \div size) |->
     SubSeq(payload, (i - 1) * size + 1, Smaller(i * size, Len(payload)))]

(* memchr for the byte 0 after the first from bytes; 0 when there is none. *)
NulAfter(b, from) ==
  LET nuls == {i \in (from + 1)..Len(b) : b[i] = Nul} IN
  IF nuls = {} THEN 0 ELSE CHOOSE i \in nuls : \A j \in nuls : i <= j

BadHeader(b) ==
  \/ b[1] # Magic
  \/ ~ \E flags \in SUBSET {"NAME", "COMMENT"} : b[2] = FlagByte(flags)
HasName(b) == "NAME" \in b[2].flags
HasComment(b) == "COMMENT" \in b[2].flags

(* Mutant of Parsed: after an incomplete name, on to the comment.          *)
ParsedSkipsName(b, st, p) ==
  LET name == IF st = 0 THEN HeaderLen ELSE p
      text == IF st <= 1 /\ HasName(b) THEN NulAfter(b, name) ELSE name
      last == IF HasComment(b) THEN NulAfter(b, text) ELSE text
  IN CASE text = 0 -> [state |-> 2, pos |-> name, from |-> 0]
       [] text # 0 /\ last = 0 -> [state |-> 2, pos |-> text, from |-> 0]
       [] OTHER -> [state |-> 3, pos |-> last, from |-> text]

(* The switch, whose cases fall through: from the state st, with p bytes   *)
(* parsed, as far as what was read allows; each `continue` keeps the state *)
(* that was reached.  State 3 is the return.                               *)
Parsed(b, st, p) ==
  LET name == IF st = 0 THEN HeaderLen ELSE p
      text == IF st <= 1 /\ HasName(b) THEN NulAfter(b, name) ELSE name
      last == IF HasComment(b) THEN NulAfter(b, text) ELSE text
  IN CASE text = 0 -> [state |-> 1, pos |-> name, from |-> 0]
       [] text # 0 /\ last = 0 -> [state |-> 2, pos |-> text, from |-> 0]
       [] OTHER -> [state |-> 3, pos |-> last, from |-> text]
=============================================================================
