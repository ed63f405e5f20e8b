------------------------------ MODULE ZVerify ------------------------------
(* signify -V -z: zverify, with readgz_header and copy_blocks of zsig.c.   *)
(* An archive arrives through a pipe, in pieces of any size.  Its gzip     *)
(* header is parsed as it arrives; the comment in it holds a signature and *)
(* the hashes of the blocks of the payload, and each block is written when *)
(* its hash is right, before the next one is read.                         *)
(* The bytes of an archive are those of GzHeader.                          *)
EXTENDS GzHeader, FiniteSets, SequencesExt

CONSTANTS
  Size,       \* the size of readgz_header's first buffer
  Name,       \* a byte of a name
  Signings,   \* what the owner of the key has signed
  Streams     \* the archives that may arrive

(* What is in a payload or in an archive.                                  *)
Bytes == UNION {Range(s) : s \in Streams \cup UNION {Range(signing.blocks) : signing \in Signings}}

(* The blocks of a signing are full, the last one excepted, which is not   *)
(* empty; and a comment is text.                                           *)
ASSUME ZVerifyAssumption ==
  /\ Size \in Nat \ {0}
  /\ Streams \subseteq Seq(Bytes)
  /\ Name # Nul
  /\ \A s \in Signings :
       /\ s.size \in Nat \ {0}
       /\ s.blocks \in Seq(Seq(Bytes))
       /\ \A k \in 1..Len(s.blocks) :
            /\ Len(s.blocks[k]) \in 1..s.size
            /\ k < Len(s.blocks) => Len(s.blocks[k]) = s.size
       /\ Nul \notin Range(Comment(s))

VARIABLES
  stream,   \* the archive that arrives
  off,      \* how much of it read(2) has delivered
  pc,       \* where the program is, or how it ended
  hbuf,     \* what readgz_header has read
  sz,       \* the size of its buffer
  state,    \* 0: fixed header, 1: name, 2: comment
  pos,      \* what of hbuf is parsed
  comment,  \* the comment, h.comment up to h.endcomment
  residual, \* what of hbuf copy_blocks has taken
  buffer,   \* the block
  wrote,    \* what of it is written
  sha,      \* the number of hash lines used
  out       \* the output file, or NoFile

vars == <<stream, off, pc, hbuf, sz, state, pos, comment, residual, buffer, wrote, sha, out>>
header == <<hbuf, sz, state, pos, comment>>
copying == <<residual, buffer, wrote, sha>>

NoFile == <<"none">>
Exits == {"exit0", "exit1", "exit4", "stopped"}

Init ==
  /\ stream \in Streams
  /\ off = 0 /\ pc = "header"
  /\ hbuf = << >> /\ sz = Size /\ state = 0 /\ pos = 0 /\ comment = << >>
  /\ residual = 0 /\ buffer = << >> /\ wrote = 0 /\ sha = 0
  /\ out = NoFile

Exit(code) == pc' = code /\ UNCHANGED <<stream, off, header, copying, out>>

-----------------------------------------------------------------------------
(* readgz_header *)

(* A read into what is left of the buffer, which is doubled when full.     *)
ReadHeader ==
  /\ pc = "header"
  /\ sz' = IF Len(hbuf) = sz THEN 2 * sz ELSE sz
  /\ \E n \in 1..Smaller(sz' - Len(hbuf), Len(stream) - off) :
       LET b == hbuf \o SubSeq(stream, off + 1, off + n)
           h == Parsed(b, state, pos)
       IN /\ off' = off + n
          /\ hbuf' = b
          /\ CASE Len(b) < HeaderLen -> UNCHANGED <<pc, state, pos, comment>>
               [] Len(b) >= HeaderLen /\ BadHeader(b) ->
                    pc' = "exit1" /\ UNCHANGED <<state, pos, comment>>
               [] OTHER ->
                    /\ state' = h.state /\ pos' = h.pos
                    /\ pc' = IF h.state = 3 THEN "signature" ELSE "header"
                    /\ comment' = IF h.state = 3 THEN SubSeq(b, h.from + 1, h.pos - 1) ELSE << >>
  /\ UNCHANGED <<stream, copying, out>>

HeaderTruncated ==
  /\ pc = "header" /\ off = Len(stream)
  /\ Exit("exit1")

-----------------------------------------------------------------------------
(* zverify *)

(* verifyzdata: what follows the signature is what was signed.             *)
Verified == \E s \in Signings : comment = Comment(s)
Hashes == SubSeq(comment, 2, Len(comment))
SignedSize == comment[1].signed.size

VerifySignature ==
  /\ pc = "signature"
  /\ IF HasComment(hbuf) /\ Verified
       THEN pc' = "open" /\ UNCHANGED <<stream, off, header, copying, out>>
       ELSE Exit("exit1")

(* The output begins with a header of its own and the same comment, so it  *)
(* can be verified again; what hbuf has of the payload comes next.         *)
OpenOut ==
  /\ pc = "open"
  /\ out' = << >> /\ pc' = "fake"
  /\ UNCHANGED <<stream, off, header, copying>>

WriteHeader ==
  /\ pc = "fake"
  /\ out' = FixedHeader({"COMMENT"}) \o comment \o <<Nul>>
  /\ residual' = pos
  /\ pc' = "residual"
  /\ UNCHANGED <<stream, off, header, buffer, wrote, sha>>

-----------------------------------------------------------------------------
(* copy_blocks *)

TakeResidual ==
  /\ pc = "residual"
  /\ LET n == Smaller(Len(hbuf) - residual, SignedSize) IN
       /\ buffer' = SubSeq(hbuf, residual + 1, residual + n)
       /\ residual' = residual + n
  /\ pc' = "fill"
  /\ UNCHANGED <<stream, off, header, wrote, sha, out>>

Fill ==
  /\ pc = "fill" /\ Len(buffer) < SignedSize
  /\ \E n \in 1..Smaller(SignedSize - Len(buffer), Len(stream) - off) :
       /\ buffer' = buffer \o SubSeq(stream, off + 1, off + n)
       /\ off' = off + n
  /\ UNCHANGED <<stream, pc, header, residual, wrote, sha, out>>

(* Mutant of Filled: one read for a block, as in zsign.                    *)
FilledByOneRead ==
  /\ pc = "fill"
  /\ buffer # << >> \/ off = Len(stream)
  /\ pc' = IF buffer = << >> THEN "end" ELSE "check"
  /\ UNCHANGED <<stream, off, header, copying, out>>

Filled ==
  /\ pc = "fill"
  /\ Len(buffer) = SignedSize \/ off = Len(stream)
  /\ pc' = IF buffer = << >> THEN "end" ELSE "check"
  /\ UNCHANGED <<stream, off, header, copying, out>>

(* Mutant of Check: no hash line left is no error.                         *)
CheckWhatIsListed ==
  /\ pc = "check"
  /\ IF sha < Len(Hashes) => Hashes[sha + 1] = Hash(buffer)
       THEN /\ pc' = "write" /\ sha' = Smaller(sha + 1, Len(Hashes))
            /\ UNCHANGED <<stream, off, header, residual, buffer, wrote, out>>
       ELSE Exit("exit4")

Check ==
  /\ pc = "check"
  /\ IF sha < Len(Hashes) /\ Hashes[sha + 1] = Hash(buffer)
       THEN /\ pc' = "write" /\ sha' = sha + 1
            /\ UNCHANGED <<stream, off, header, residual, buffer, wrote, out>>
       ELSE Exit("exit4")

Write ==
  /\ pc = "write"
  /\ \E n \in 1..(Len(buffer) - wrote) :
       /\ out' = out \o SubSeq(buffer, wrote + 1, wrote + n)
       /\ wrote' = wrote + n
  /\ UNCHANGED <<stream, off, pc, header, residual, buffer, sha>>

Written ==
  /\ pc = "write" /\ wrote = Len(buffer)
  /\ pc' = IF Len(buffer) # SignedSize THEN "end" ELSE "residual"
  /\ wrote' = 0
  /\ UNCHANGED <<stream, off, header, residual, buffer, sha, out>>

(* Mutant of End: hash lines may be left over.                             *)
EndAnyhow == pc = "end" /\ Exit("exit0")

End ==
  /\ pc = "end"
  /\ Exit(IF sha = Len(Hashes) THEN "exit0" ELSE "exit4")

(* A failed system call or a signal.                                       *)
Stop == pc \notin Exits /\ Exit("stopped")

Step ==
  \/ ReadHeader \/ HeaderTruncated
  \/ VerifySignature \/ OpenOut \/ WriteHeader
  \/ TakeResidual \/ Fill \/ Filled \/ Check \/ Write \/ Written \/ End

Done == pc \in Exits /\ UNCHANGED vars

Next == Step \/ Stop \/ Done

Spec == Init /\ [][Next]_vars

-----------------------------------------------------------------------------
Signed(s) == Comment(s) \o <<Nul>> \o FlattenSeq(s.blocks)
Archive(s) == FixedHeader({"COMMENT"}) \o Signed(s)

(* However the pieces fall, the header ends at the byte 0 that ends its    *)
(* last string, and the comment is what lies before it and after the name  *)
(* (readgz_header keeps its place across reads).                           *)
HeaderAgrees ==
  state = 3 =>
    LET nuls == {i \in (HeaderLen + 1)..pos : stream[i] = Nul}
        strings == stream[2].flags \cap {"NAME", "COMMENT"}
    IN /\ hbuf = SubSeq(stream, 1, Len(hbuf))
       /\ Cardinality(nuls) = Cardinality(strings)
       /\ strings # {} => pos \in nuls
       /\ strings = {} => pos = HeaderLen
       /\ "COMMENT" \in strings =>
            /\ comment = SubSeq(stream, pos - Len(comment), pos - 1)
            /\ Nul \notin Range(comment)

(* Whatever arrives, what is in the output file, complete or not, is the   *)
(* beginning of an archive whose owner signed it: a block reaches the file *)
(* only after its hash was compared; and an exit with 0 means that all of  *)
(* it is there: neither a block nor a hash line is missing (copy_blocks).  *)
OutputIsSigned ==
  /\ out # NoFile => \E s \in Signings : comment = Comment(s) /\ IsPrefix(out, Archive(s))
  /\ pc = "exit0" => \E s \in Signings : comment = Comment(s) /\ out = Archive(s)

(* An archive that the owner signed, with a name in its header or without, *)
(* is accepted however it is cut into pieces.                              *)
GenuineAccepted ==
  \A s \in Signings :
    (\E h \in {FixedHeader({"COMMENT"}), FixedHeader({"NAME", "COMMENT"}) \o <<Name, Nul>>} :
       stream = h \o Signed(s)) =>
      pc \notin {"exit1", "exit4"}

=============================================================================
