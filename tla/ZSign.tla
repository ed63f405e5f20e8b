------------------------------- MODULE ZSign -------------------------------
(* signify -S -z: zsign of zsig.c.  The payload of a gzip file is read     *)
(* twice: block by block to hash it, and again, after the signed hashes    *)
(* were written into the header of the output, to copy it.  Meanwhile an   *)
(* editor may rewrite the file, and the output may be that same file.      *)
(* The bytes of an archive are those of GzHeader.                          *)
EXTENDS GzHeader, SequencesExt

CONSTANTS
  Size,       \* the size of readgz_header's first buffer
  BlockSize,  \* MYBUFSIZE
  LineLen,    \* SHA512_256_DIGEST_STRING_LENGTH
  Extra,      \* the 1024 bytes in msg for the lines before the hashes
  Infos,      \* how long these lines may be: the key's base name is in them
  LongestInfo, \* how long they are if the base name is as long as a file's can be
  DiskSize,   \* the longest file that fits on the disk
  Inputs,     \* what the file may hold when the program starts
  Outputs,    \* what the output file may hold then, if there is one
  Edits,      \* what an editor may make of the input
  MaxEdits    \* bound on the number of edits

(* What is in a file before anything is signed.                            *)
FileBytes == UNION {Range(f) : f \in Inputs \cup Outputs \cup Edits}

ASSUME ZSignAssumption ==
  /\ {Size, BlockSize, LineLen} \subseteq Nat \ {0}
  /\ {Extra, LongestInfo, DiskSize, MaxEdits} \cup Infos \subseteq Nat
  /\ LongestInfo < Extra
  /\ Inputs \cup Outputs \cup Edits \subseteq Seq(FileBytes)

VARIABLES
  input,    \* what the file held when the program started
  alias,    \* is the output the same file?
  info,     \* the length of the lines before the hashes
  fs,       \* the files "in" and "out"
  pc,       \* where the program is, or how it ended
  st_size,  \* the length of the file when it was opened
  foff,     \* the offset of fdin
  hbuf,     \* what readgz_header has read
  sz,       \* the size of its buffer
  state,    \* 0: fixed header, 1: name, 2: comment
  pos,      \* what of hbuf is parsed; h.headerlength after that
  hashed,   \* the blocks whose hash lines are in msg
  buffer,   \* what is being written
  edits     \* edits done so far

vars == <<input, alias, info, fs, pc, st_size, foff, hbuf, sz, state, pos, hashed, buffer, edits>>
header == <<hbuf, sz, state, pos>>

Exits == {"exit0", "exit1", "stopped"}
NoFile == <<"none">>
Out == IF alias THEN "in" ELSE "out"

Init ==
  /\ input \in Inputs /\ alias \in BOOLEAN /\ info \in Infos
  /\ fs \in {[in |-> input]} \cup {[in |-> input, out |-> o] : o \in Outputs}
  /\ pc = "open" /\ st_size = 0 /\ foff = 0
  /\ hbuf = << >> /\ sz = Size /\ state = 0 /\ pos = 0
  /\ hashed = << >> /\ buffer = << >> /\ edits = 0

Put(path, content) ==
  fs' = [f \in DOMAIN fs \cup {path} |-> IF f = path THEN content ELSE fs[f]]

(* read(2) of a regular file delivers what is asked for, or all there is.  *)
Left == Len(fs["in"]) - foff
FromFile(n) == SubSeq(fs["in"], foff + 1, foff + Smaller(n, Left))
AtEof == Left <= 0

Exit(code) ==
  /\ pc' = code
  /\ UNCHANGED <<input, alias, info, fs, st_size, foff, header, hashed, buffer, edits>>

-----------------------------------------------------------------------------
Open ==
  /\ pc = "open"
  /\ pc' = "header" /\ st_size' = Len(fs["in"])
  /\ UNCHANGED <<input, alias, info, fs, foff, header, hashed, buffer, edits>>

(* readgz_header, and the seek to the end of the header.                   *)
ReadHeader ==
  /\ pc = "header" /\ ~ AtEof
  /\ sz' = IF Len(hbuf) = sz THEN 2 * sz ELSE sz
  /\ LET b == hbuf \o FromFile(sz' - Len(hbuf))
         h == Parsed(b, state, pos)
     IN /\ hbuf' = b
        /\ CASE Len(b) < HeaderLen -> foff' = Len(b) /\ UNCHANGED <<pc, state, pos>>
             [] Len(b) >= HeaderLen /\ BadHeader(b) ->
                  pc' = "exit1" /\ foff' = Len(b) /\ UNCHANGED <<state, pos>>
             [] OTHER ->
                  /\ state' = h.state /\ pos' = h.pos
                  /\ pc' = IF h.state = 3 THEN "hash" ELSE "header"
                  /\ foff' = IF h.state = 3 THEN h.pos ELSE Len(b)
  /\ UNCHANGED <<input, alias, info, fs, st_size, hashed, buffer, edits>>

HeaderTruncated == pc = "header" /\ AtEof /\ Exit("exit1")

-----------------------------------------------------------------------------
(* Mutant of Space: no line for the block that is not full.                *)
SpaceForWholeBlocks == (st_size \div BlockSize) * LineLen + Extra

(* The size of msg, from the size of the file at the open.                 *)
Space == (st_size \div BlockSize + 1) * LineLen + Extra

(* snprintf cuts the lines before the hashes to what msg can hold; p - msg *)
(* after n hash lines. Their last line, too, is followed by a 0.           *)
MsgEnd(n) == Smaller(info, Space - 1) + n * LineLen

(* A line is stored first; then it is seen whether there was room for it.  *)
HashBlock ==
  /\ pc = "hash" /\ ~ AtEof
  /\ hashed' = Append(hashed, FromFile(BlockSize))
  /\ foff' = foff + Len(FromFile(BlockSize))
  /\ pc' = IF MsgEnd(Len(hashed')) > Space THEN "exit1" ELSE "hash"
  /\ UNCHANGED <<input, alias, info, fs, st_size, header, buffer, edits>>

Hashed ==
  /\ pc = "hash" /\ AtEof
  /\ pc' = "opensig"
  /\ UNCHANGED <<input, alias, info, fs, st_size, foff, header, hashed, buffer, edits>>

(* O_CREAT|O_TRUNC, before it is known whether a signature can be made, and*)
(* also if it is the file that has still to be copied.                     *)
OpenSig ==
  /\ pc = "opensig"
  /\ Put(Out, << >>)
  /\ pc' = "createsig"
  /\ UNCHANGED <<input, alias, info, st_size, foff, header, hashed, buffer, edits>>

Signing == [blocks |-> hashed, size |-> BlockSize]

(* createsig: an unusable key or a wrong passphrase ends the program, and  *)
(* so does a key whose name is too long for a file, at its open.           *)
CreateSig ==
  /\ pc = "createsig"
  /\ \/ /\ info <= LongestInfo
        /\ buffer' = FixedHeader({"COMMENT"}) \o Comment(Signing) \o <<Nul>>
        /\ pc' = "writeheader"
        /\ UNCHANGED <<input, alias, info, fs, st_size, foff, header, hashed, edits>>
     \/ Exit("exit1")

(* writeall; a full disk ends the program.                                 *)
Write ==
  /\ pc \in {"writeheader", "write"} /\ buffer # << >>
  /\ IF Len(fs[Out]) >= DiskSize
       THEN Exit("exit1")
       ELSE \E n \in 1..Smaller(Len(buffer), DiskSize - Len(fs[Out])) :
              /\ Put(Out, fs[Out] \o SubSeq(buffer, 1, n))
              /\ buffer' = SubSeq(buffer, n + 1, Len(buffer))
              /\ UNCHANGED <<input, alias, info, pc, st_size, foff, header, hashed, edits>>

(* Mutant of HeaderWritten: without the second seek.                       *)
HeaderWrittenStays ==
  /\ pc = "writeheader" /\ buffer = << >>
  /\ pc' = "copy"
  /\ UNCHANGED <<input, alias, info, fs, st_size, foff, header, hashed, buffer, edits>>

(* Back to the end of the header, where the header was.                    *)
HeaderWritten ==
  /\ pc = "writeheader" /\ buffer = << >>
  /\ foff' = pos
  /\ pc' = "copy"
  /\ UNCHANGED <<input, alias, info, fs, st_size, header, hashed, buffer, edits>>

CopyBlock ==
  /\ pc = "copy" /\ ~ AtEof
  /\ buffer' = FromFile(BlockSize)
  /\ foff' = foff + Len(FromFile(BlockSize))
  /\ pc' = "write"
  /\ UNCHANGED <<input, alias, info, fs, st_size, header, hashed, edits>>

Written ==
  /\ pc = "write" /\ buffer = << >>
  /\ pc' = "copy"
  /\ UNCHANGED <<input, alias, info, fs, st_size, foff, header, hashed, buffer, edits>>

Copied == pc = "copy" /\ AtEof /\ Exit("exit0")

-----------------------------------------------------------------------------
(* A failed system call or a signal.                                       *)
Stop == pc \notin Exits /\ Exit("stopped")

(* Somebody rewrites the input in place.                                   *)
Edit ==
  /\ edits < MaxEdits /\ ~ alias /\ pc \notin Exits
  /\ \E e \in Edits : Put("in", e)
  /\ edits' = edits + 1
  /\ UNCHANGED <<input, alias, info, pc, st_size, foff, header, hashed, buffer>>

Done == pc \in Exits /\ UNCHANGED vars

Step ==
  \/ Open \/ ReadHeader \/ HeaderTruncated
  \/ HashBlock \/ Hashed
  \/ OpenSig \/ CreateSig \/ Write \/ HeaderWritten
  \/ CopyBlock \/ Written \/ Copied

Next == Step \/ Stop \/ Edit \/ Done

Spec == Init /\ [][Next]_vars

(* The kernel schedules the program, and no call on a regular file blocks. *)
FairSpec == Spec /\ WF_vars(Step)

-----------------------------------------------------------------------------
(* The archive of a payload, and the payload of a gzip file.               *)
Archive(payload) ==
  LET blocks == Blocks(payload, BlockSize) IN
  FixedHeader({"COMMENT"}) \o Comment([blocks |-> blocks, size |-> BlockSize]) \o <<Nul>> \o payload
Payload(file) ==
  LET h == Parsed(file, 0, 0) IN SubSeq(file, h.pos + 1, Len(file))

(* If the lines before the hashes are shorter than the extra 1024 bytes,  *)
(* the room in msg is enough for a file that does not change: no hash line *)
(* nor the 0 behind the last is stored past its end (zsign). Of a file that*)
(* grows one line may be, before the check after it ends the program.      *)
SpaceSuffices ==
  edits = 0 /\ info < Extra => MsgEnd(Len(hashed)) < Space

(* The extra 1024 bytes are 'long enough for extra header information'     *)
(* (zsig.c:264), whatever key is named: the lines are made before the key  *)
(* is opened, and nothing bounds its base name until then.                 *)
ExtraSuffices ==
  edits = 0 => MsgEnd(Len(hashed)) <= Space

(* -S -z that ends with success has written the archive of the payload of  *)
(* a file that nobody edited: the two passes over the file, each from the  *)
(* end of the header that was found in pieces, see the same blocks.        *)
SigningIsFaithful ==
  pc = "exit0" /\ edits = 0 /\ ~ alias => fs[Out] = Archive(Payload(input))

(* -S -z that ends with success has written the archive of the payload even*)
(* if the output is the input, as the manual has it: exit 0 is success, and*)
(* what was signed is the archive with its signing data embedded.          *)
InPlaceIsFaithful ==
  pc = "exit0" /\ edits = 0 /\ alias => fs[Out] = Archive(Payload(input))
=============================================================================
