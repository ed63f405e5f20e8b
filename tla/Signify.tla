------------------------------ MODULE Signify ------------------------------
(***************************************************************************)
(* The three commands of signify.c that work on whole files: -G (generate),*)
(* -S (sign) and -V (verify), with and without -e.  Any number of          *)
(* invocations run at the same time over one file system; each step is one *)
(* system call with the computation up to the next one, a write may be     *)
(* short, a process may stop at every step, and an editor may rewrite the  *)
(* message files while they are being read.                                *)
(*                                                                         *)
(* A file is a sequence of bytes, each a symbol of a message or one half   *)
(* of a header (the comment line and the base64 line of a key or of a      *)
(* signature), so that a header can be seen half written.  Cryptography is *)
(* ideal: a signature names the signing it came from.                      *)
(***************************************************************************)
EXTENDS Naturals, Sequences, SequencesExt

CONSTANTS
  Procs,        \* the invocations
  InitKeys,     \* key pairs that exist before any of them
  Pass,         \* passphrases that can be typed
  NoPass,       \* a secret key with kdfrounds = 0 (-n)
  Symbols,      \* the bytes of messages
  Nul,          \* the byte a file system reads out of a hole
  Paths,        \* the names of files
  Files,        \* the files that exist at the start, a partial function
  InitSigned,   \* the signings before the start, in Files
  Jobs,         \* the command lines
  Edits,        \* what an editor may write where: a set of <<path, content>>
  MaxEdits      \* bound on the number of edits

(* A key pair is named by the process that draws it (keynum, seckey and    *)
(* pubkey are drawn together), or is one of InitKeys.                      *)
Keys == Procs \cup InitKeys

SecHeaders == [kind : {"sec"}, key : Keys, pass : Pass \cup {NoPass}]
PubHeaders == [kind : {"pub"}, key : Keys]
SigHeaders(n) == [kind : {"sig"}, key : Keys, id : 1..n]

Half(i, h) == [half |-> i, header |-> h]
Header(h) == <<Half(1, h), Half(2, h)>>

(* parseb64file: the file begins with a complete header of the kind whose  *)
(* length the caller expects; whatever follows the second newline is left. *)
StartsWith(content, h) == Len(content) >= 2 /\ content[1] = Half(1, h) /\ content[2] = Half(2, h)
HasHeader(content, headers) == \E h \in headers : StartsWith(content, h)
HeaderOf(content, headers) == CHOOSE h \in headers : StartsWith(content, h)
AfterHeader(content) == SubSeq(content, 3, Len(content))

ASSUME NamesAssumption ==
  /\ Procs \cap InitKeys = {}
  /\ NoPass \notin Pass
  /\ Nul \in Symbols
  /\ MaxEdits \in Nat

(* A file holds symbols and halves of headers, and no file knows a key     *)
(* before it is drawn.                                                     *)
HeaderHalves(n) == [half : 1..2, header : SecHeaders \cup PubHeaders \cup SigHeaders(n)]
Tokens(n) == Symbols \cup HeaderHalves(n)

ASSUME FilesAssumption ==
  /\ InitSigned \in Seq([key : Keys, body : Seq(Tokens(Len(InitSigned)))])
  /\ DOMAIN Files \subseteq Paths
  /\ \A f \in DOMAIN Files :
       /\ Files[f] \in Seq(Tokens(Len(InitSigned)))
       /\ \A p \in Procs : Len(Files[f]) > 0 =>
            Files[f][1] # Half(1, [kind |-> "pub", key |-> p])
  /\ \A e \in Edits : e \in Paths \X Seq(Tokens(Len(InitSigned)))
  /\ Files = [f \in DOMAIN Files |-> Files[f]]

JobType == [verb : {"G", "S", "V"}, sec : Paths, pub : Paths, msg : Paths,
            sig : Paths, embedded : BOOLEAN, none : BOOLEAN]

(* The files that a command line may name as key pairs to create.          *)
KeyPaths == {j.sec : j \in {i \in Jobs : i.verb = "G"}} \cup {j.pub : j \in {i \in Jobs : i.verb = "G"}}

(* No command line here has a key file to be created as the output of -S   *)
(* or -V -e, and no editor writes one; no check of the code refuses that.  *)
ASSUME JobsAssumption ==
  /\ Jobs \subseteq JobType
  /\ \A j \in Jobs : j.verb = "S" => j.sig \notin KeyPaths
  /\ \A j \in Jobs : j.verb = "V" /\ j.embedded => j.msg \notin KeyPaths
  /\ \A e \in Edits : e[1] \notin KeyPaths

VARIABLES
  fs,       \* the files: a function from the paths that exist
  job,      \* the command line of each process
  pc,       \* where each process is
  buf,      \* msg while reading, the bytes to write while writing
  pos,      \* the offset of the open file
  hdr,      \* the header read last, or the one to write
  signed,   \* every signing: which key signed what
  edits     \* edits done so far

vars == <<fs, job, pc, buf, pos, hdr, signed, edits>>

Final == {"ok", "fail", "stopped"}
Reading == {"start", "read"}
Writing == {"writesec", "writepub", "writesig", "writemsg"}

(* The file readmsg reads: the signed one for -V -e, the message otherwise.*)
InPath(p) == IF job[p].verb = "V" /\ job[p].embedded THEN job[p].sig ELSE job[p].msg
OutPath(p) == CASE pc[p] = "writesec" -> job[p].sec
                [] pc[p] = "writepub" -> job[p].pub
                [] pc[p] = "writesig" -> job[p].sig
                [] pc[p] = "writemsg" -> job[p].msg

NoHeader == [kind |-> "none"]

Init ==
  /\ fs = Files
  /\ job \in [Procs -> Jobs]
  /\ pc = [p \in Procs |-> IF job[p].verb = "G" THEN "kdf" ELSE "start"]
  /\ buf = [p \in Procs |-> << >>]
  /\ pos = [p \in Procs |-> 0]
  /\ hdr = [p \in Procs |-> NoHeader]
  /\ signed = InitSigned
  /\ edits = 0

-----------------------------------------------------------------------------
Goto(p, l) == pc' = [pc EXCEPT ![p] = l]
Put(path, content) ==
  fs' = [f \in DOMAIN fs \cup {path} |-> IF f = path THEN content ELSE fs[f]]

(* What pwrite(2) at an offset makes of a file; past its end lies a hole.  *)
WriteAt(content, offset, bytes) ==
  LET end == offset + Len(bytes) IN
  [i \in 1..(IF Len(content) > end THEN Len(content) ELSE end) |->
     IF i > offset /\ i <= end THEN bytes[i - offset]
     ELSE IF i <= Len(content) THEN content[i] ELSE Nul]

(* errx on what the program finds; nothing is written.                     *)
Fail(p) == Goto(p, "fail") /\ UNCHANGED <<fs, buf, pos, hdr, signed>>

(* One turn of the loop of writeall: write(2) takes one byte or more.      *)
Write(p) ==
  /\ pc[p] \in Writing
  /\ UNCHANGED <<job, edits>>
  /\ \E n \in 1..(Len(buf[p]) - pos[p]) :
       /\ Put(OutPath(p), WriteAt(fs[OutPath(p)], pos[p], SubSeq(buf[p], pos[p] + 1, pos[p] + n)))
       /\ pos' = [pos EXCEPT ![p] = @ + n]
  /\ UNCHANGED <<pc, buf, hdr, signed>>

(* Mutant of Close: a short write taken for the whole.                     *)
CloseShort(p) ==
  /\ pc[p] \in Writing
  /\ UNCHANGED <<job, edits>>
  /\ Goto(p, IF pc[p] = "writesec" THEN "openpub" ELSE "ok")
  /\ UNCHANGED <<fs, buf, pos, hdr, signed>>

Close(p) ==
  /\ pc[p] \in Writing
  /\ UNCHANGED <<job, edits>>
  /\ pos[p] = Len(buf[p])
  /\ Goto(p, IF pc[p] = "writesec" THEN "openpub" ELSE "ok")
  /\ UNCHANGED <<fs, buf, pos, hdr, signed>>

-----------------------------------------------------------------------------
(* generate *)

(* Mutant of Kdf: the key pair is not drawn.                               *)
KdfNothing(p) ==
  /\ pc[p] = "kdf"
  /\ UNCHANGED <<job, edits>>
  /\ Goto(p, "opensec")
  /\ UNCHANGED <<fs, buf, pos, hdr, signed>>

(* kdf: with -n no passphrase is asked for.                                *)
Typeable(j) == IF j.none THEN {NoPass} ELSE Pass

(* The key pair and the salt are drawn and the passphrase is read, twice   *)
(* on a terminal.  An unreadable or empty passphrase, two that differ, or  *)
(* too long a comment end the program before any file exists.              *)
Kdf(p) ==
  /\ pc[p] = "kdf"
  /\ UNCHANGED <<job, edits>>
  /\ \/ \E typed \in Typeable(job[p]) :
          /\ hdr' = [hdr EXCEPT ![p] = [kind |-> "sec", key |-> p, pass |-> typed]]
          /\ Goto(p, "opensec")
          /\ UNCHANGED <<fs, buf, pos, signed>>
     \/ Fail(p)

(* Mutant of Create: O_TRUNC for O_EXCL.                                   *)
CreateTruncates(p, path, h, next) ==
  /\ Put(path, << >>)
  /\ buf' = [buf EXCEPT ![p] = Header(h)]
  /\ pos' = [pos EXCEPT ![p] = 0]
  /\ Goto(p, next)
  /\ UNCHANGED <<hdr, signed>>

(* writekeyfile, up to its first write: O_CREAT|O_EXCL.                    *)
Create(p, path, h, next) ==
  \/ /\ path \in DOMAIN fs
     /\ Fail(p)
  \/ /\ path \notin DOMAIN fs
     /\ Put(path, << >>)
     /\ buf' = [buf EXCEPT ![p] = Header(h)]
     /\ pos' = [pos EXCEPT ![p] = 0]
     /\ Goto(p, next)
     /\ UNCHANGED <<hdr, signed>>

OpenSec(p) ==
  /\ pc[p] = "opensec"
  /\ UNCHANGED <<job, edits>>
  /\ Create(p, job[p].sec, hdr[p], "writesec")

OpenPub(p) ==
  /\ pc[p] = "openpub"
  /\ UNCHANGED <<job, edits>>
  /\ Create(p, job[p].pub, [kind |-> "pub", key |-> p], "writepub")

-----------------------------------------------------------------------------
(* readmsg: open, then read until EOF, as much at a time as read(2) gives. *)

OpenMsg(p) ==
  /\ pc[p] = "start"
  /\ UNCHANGED <<job, edits>>
  /\ IF InPath(p) \in DOMAIN fs
       THEN Goto(p, "read") /\ UNCHANGED <<fs, buf, pos, hdr, signed>>
       ELSE Fail(p)

ReadMsg(p) ==
  /\ pc[p] = "read"
  /\ UNCHANGED <<job, edits>>
  /\ \E n \in 1..(Len(fs[InPath(p)]) - pos[p]) :
       /\ buf' = [buf EXCEPT ![p] = @ \o SubSeq(fs[InPath(p)], pos[p] + 1, pos[p] + n)]
       /\ pos' = [pos EXCEPT ![p] = @ + n]
  /\ UNCHANGED <<fs, pc, hdr, signed>>

(* Mutant of ReadMsgEof: the end is where the file ended at the open.      *)
ReadMsgEofExact(p) ==
  /\ pc[p] = "read"
  /\ UNCHANGED <<job, edits>>
  /\ pos[p] = Len(fs[InPath(p)])
  /\ Goto(p, CASE job[p].verb = "S" -> "readsec"
               [] job[p].verb = "V" /\ job[p].embedded -> "parse"
               [] OTHER -> "readsig")
  /\ UNCHANGED <<fs, buf, pos, hdr, signed>>

ReadMsgEof(p) ==
  /\ pc[p] = "read"
  /\ UNCHANGED <<job, edits>>
  /\ pos[p] >= Len(fs[InPath(p)])
  /\ Goto(p, CASE job[p].verb = "S" -> "readsec"
               [] job[p].verb = "V" /\ job[p].embedded -> "parse"
               [] OTHER -> "readsig")
  /\ UNCHANGED <<fs, buf, pos, hdr, signed>>

(* readb64file: one open and one read; a file that is missing or does not  *)
(* hold a complete header of the expected kind ends the program.           *)
ReadHeader(p, path, headers, next) ==
  IF path \in DOMAIN fs /\ HasHeader(fs[path], headers)
    THEN /\ hdr' = [hdr EXCEPT ![p] = HeaderOf(fs[path], headers)]
         /\ Goto(p, next)
         /\ UNCHANGED <<fs, buf, pos, signed>>
    ELSE Fail(p)

-----------------------------------------------------------------------------
(* createsig and sign *)

(* Mutant of ReadSec: the output is opened before there is a signature, as *)
(* zsign opens it (zsig.c:294).                                            *)
ReadSecOpensSig(p) ==
  /\ pc[p] = "readsec"
  /\ UNCHANGED <<job, edits>>
  /\ IF job[p].sec \in DOMAIN fs /\ HasHeader(fs[job[p].sec], SecHeaders)
       THEN /\ hdr' = [hdr EXCEPT ![p] = HeaderOf(fs[job[p].sec], SecHeaders)]
            /\ Put(job[p].sig, << >>)
            /\ Goto(p, "createsig")
            /\ UNCHANGED <<buf, pos, signed>>
       ELSE Fail(p)

ReadSec(p) ==
  /\ pc[p] = "readsec"
  /\ UNCHANGED <<job, edits>>
  /\ ReadHeader(p, job[p].sec, SecHeaders, "createsig")

(* Signing the same message with the same key gives the same signature.    *)
SigningOf(key, body) ==
  IF \E i \in 1..Len(signed) : signed[i] = [key |-> key, body |-> body]
    THEN CHOOSE i \in 1..Len(signed) : signed[i] = [key |-> key, body |-> body]
    ELSE Len(signed) + 1

(* The passphrase is read only if kdfrounds is not 0; the checksum tells a *)
(* wrong one.  The signature is of the message as it is in memory.         *)
CreateSig(p) ==
  LET id == SigningOf(hdr[p].key, buf[p]) IN
  /\ pc[p] = "createsig"
  /\ UNCHANGED <<job, edits>>
  /\ \/ /\ hdr' = [hdr EXCEPT ![p] = [kind |-> "sig", key |-> hdr[p].key, id |-> id]]
        /\ signed' = IF id <= Len(signed) THEN signed
                     ELSE Append(signed, [key |-> hdr[p].key, body |-> buf[p]])
        /\ Goto(p, "opensig")
        /\ UNCHANGED <<fs, buf, pos>>
     \/ hdr[p].pass # NoPass /\ Fail(p)

(* Mutant of OpenSig: the message is read again then, as zsign does.       *)
OpenSigRereads(p) ==
  /\ pc[p] = "opensig"
  /\ UNCHANGED <<job, edits>>
  /\ job[p].msg \in DOMAIN fs
  /\ Put(job[p].sig, << >>)
  /\ buf' = [buf EXCEPT ![p] = Header(hdr[p]) \o IF job[p].embedded THEN fs'[job[p].msg] ELSE << >>]
  /\ pos' = [pos EXCEPT ![p] = 0]
  /\ Goto(p, "writesig")
  /\ UNCHANGED <<hdr, signed>>

(* O_CREAT|O_TRUNC, then the header and, with -e, the message in memory.   *)
OpenSig(p) ==
  /\ pc[p] = "opensig"
  /\ UNCHANGED <<job, edits>>
  /\ Put(job[p].sig, << >>)
  /\ buf' = [buf EXCEPT ![p] = Header(hdr[p]) \o IF job[p].embedded THEN buf[p] ELSE << >>]
  /\ pos' = [pos EXCEPT ![p] = 0]
  /\ Goto(p, "writesig")
  /\ UNCHANGED <<hdr, signed>>

-----------------------------------------------------------------------------
(* verifysimple, verifyembedded and verify *)

ReadSig(p) ==
  /\ pc[p] = "readsig"
  /\ UNCHANGED <<job, edits>>
  /\ ReadHeader(p, job[p].sig, SigHeaders(Len(signed)), "readpub")

(* Mutant of ParseEmbedded: the message is written before it is verified.  *)
ParseEmbeddedUnverified(p) ==
  /\ pc[p] = "parse"
  /\ UNCHANGED <<job, edits>>
  /\ IF HasHeader(buf[p], SigHeaders(Len(signed)))
       THEN /\ hdr' = [hdr EXCEPT ![p] = HeaderOf(buf[p], SigHeaders(Len(signed)))]
            /\ buf' = [buf EXCEPT ![p] = AfterHeader(@)]
            /\ Goto(p, "openmsg")
            /\ UNCHANGED <<fs, pos, signed>>
       ELSE Fail(p)

ParseEmbedded(p) ==
  /\ pc[p] = "parse"
  /\ UNCHANGED <<job, edits>>
  /\ IF HasHeader(buf[p], SigHeaders(Len(signed)))
       THEN /\ hdr' = [hdr EXCEPT ![p] = HeaderOf(buf[p], SigHeaders(Len(signed)))]
            /\ buf' = [buf EXCEPT ![p] = AfterHeader(@)]
            /\ Goto(p, "readpub")
            /\ UNCHANGED <<fs, pos, signed>>
       ELSE Fail(p)

(* verifymsg: the key number, then the signature itself.                   *)
Verifies(key, sig, body) == sig.key = key /\ signed[sig.id] = [key |-> key, body |-> body]

(* readpubkey and verifymsg: between them nothing leaves the process.      *)
Verify(p) ==
  /\ pc[p] = "readpub"
  /\ UNCHANGED <<job, edits>>
  /\ IF /\ job[p].pub \in DOMAIN fs
        /\ HasHeader(fs[job[p].pub], PubHeaders)
        /\ Verifies(HeaderOf(fs[job[p].pub], PubHeaders).key, hdr[p], buf[p])
       THEN /\ Goto(p, IF job[p].embedded THEN "openmsg" ELSE "ok")
            /\ UNCHANGED <<fs, buf, pos, hdr, signed>>
       ELSE Fail(p)

(* Mutant of OpenOut: O_CREAT without O_TRUNC.                             *)
OpenOutKeeps(p) ==
  /\ pc[p] = "openmsg"
  /\ UNCHANGED <<job, edits>>
  /\ IF job[p].msg \in DOMAIN fs THEN UNCHANGED fs ELSE Put(job[p].msg, << >>)
  /\ pos' = [pos EXCEPT ![p] = 0]
  /\ Goto(p, "writemsg")
  /\ UNCHANGED <<buf, hdr, signed>>

(* verify, with -e: only now the message file is created or truncated.     *)
OpenOut(p) ==
  /\ pc[p] = "openmsg"
  /\ UNCHANGED <<job, edits>>
  /\ Put(job[p].msg, << >>)
  /\ pos' = [pos EXCEPT ![p] = 0]
  /\ Goto(p, "writemsg")
  /\ UNCHANGED <<buf, hdr, signed>>

-----------------------------------------------------------------------------
(* A failed system call or a signal ends the program wherever it is.       *)
Stop(p) ==
  /\ pc[p] \notin Final
  /\ UNCHANGED <<job, edits>>
  /\ Goto(p, "stopped")
  /\ UNCHANGED <<fs, buf, pos, hdr, signed>>

Generate(p) == Kdf(p) \/ OpenSec(p) \/ OpenPub(p)
Sign(p) == ReadSec(p) \/ CreateSig(p) \/ OpenSig(p)
VerifyFile(p) == ReadSig(p) \/ ParseEmbedded(p) \/ Verify(p) \/ OpenOut(p)
Step(p) ==
  \/ Generate(p)
  \/ OpenMsg(p) \/ ReadMsg(p) \/ ReadMsgEof(p)
  \/ Sign(p)
  \/ VerifyFile(p)
  \/ Write(p) \/ Close(p)

(* Somebody rewrites a file in place.                                      *)
Edit ==
  /\ edits < MaxEdits
  /\ \E e \in Edits : Put(e[1], e[2])
  /\ edits' = edits + 1
  /\ UNCHANGED <<job, pc, buf, pos, hdr, signed>>

Done == (\A p \in Procs : pc[p] \in Final) /\ UNCHANGED vars

Next ==
  \/ \E p \in Procs : Step(p) \/ Stop(p)
  \/ Edit
  \/ Done

Spec == Init /\ [][Next]_vars

(* Each invocation is a process of its own that the kernel schedules, and  *)
(* no call on a regular file blocks; nothing obliges anybody to stop one   *)
(* or to edit.                                                             *)
Fairness == \A p \in Procs : WF_vars(Step(p))
FairSpec == Spec /\ Fairness

-----------------------------------------------------------------------------
(* Every variable keeps its type; a process has a header of the kind its   *)
(* place in the program promises.                                          *)
TypeOK ==
  /\ DOMAIN fs \subseteq Paths
  /\ \A f \in DOMAIN fs : fs[f] \in Seq(Tokens(Len(signed)))
  /\ job \in [Procs -> Jobs]
  /\ pc \in [Procs -> Final \cup Reading \cup Writing \cup
               {"kdf", "opensec", "openpub", "readsec", "createsig", "opensig",
                "readsig", "parse", "readpub", "openmsg"}]
  /\ buf \in [Procs -> Seq(Tokens(Len(signed)))]
  /\ pos \in [Procs -> Nat]
  /\ hdr \in [Procs -> {NoHeader} \cup SecHeaders \cup SigHeaders(Len(signed))]
  /\ signed \in Seq([key : Keys, body : Seq(Tokens(Len(signed)))])
  /\ edits \in 0..MaxEdits
  /\ \A p \in Procs :
       /\ pc[p] \in {"opensec", "createsig"} => hdr[p] \in SecHeaders
       /\ pc[p] \in {"opensig", "readpub"} => hdr[p] \in SigHeaders(Len(signed))

(* No other process, and no editor, ever writes the file.                  *)
Outputs(j) == CASE j.verb = "G" -> {j.sec, j.pub}
                [] j.verb = "S" -> {j.sig}
                [] j.verb = "V" -> IF j.embedded THEN {j.msg} ELSE {}
SoleWriter(p, f) ==
  /\ \A q \in Procs \ {p} : f \notin Outputs(job[q])
  /\ \A e \in Edits : e[1] # f

Owns(p) == [sec |-> Header(hdr[p]), pub |-> Header([kind |-> "pub", key |-> p])]

(* signify -G that ends with success leaves its own two files complete and *)
(* of one key pair, whatever other invocations tried on the same names     *)
(* (generate, writekeyfile with O_EXCL).                                   *)
GeneratedPair ==
  \A p \in Procs : job[p].verb = "G" /\ pc[p] = "ok" =>
    /\ job[p].sec \in DOMAIN fs /\ fs[job[p].sec] = Owns(p).sec
    /\ job[p].pub \in DOMAIN fs /\ fs[job[p].pub] = Owns(p).pub

(* generate writes the secret key before it creates the public one: no     *)
(* byte of a generated public key is on disk, however the program ended,   *)
(* unless the secret key of the pair is there in full.                     *)
PubImpliesSec ==
  \A p \in Procs : \A f \in DOMAIN fs \cap KeyPaths :
    Len(fs[f]) > 0 /\ fs[f][1] = Half(1, [kind |-> "pub", key |-> p]) =>
      \E g \in DOMAIN fs : \E h \in SecHeaders : h.key = p /\ fs[g] = Header(h)

(* No step of any command changes a byte of a key file that exists: it is  *)
(* only ever continued by the process that created it.                     *)
KeysNeverReplaced ==
  [][\A f \in DOMAIN fs \cap KeyPaths : f \in DOMAIN fs' /\ IsPrefix(fs[f], fs'[f])]_vars

(* A signed file made with -e verifies against itself: the message in it   *)
(* is the one in memory that was signed, even if the message file was      *)
(* edited while it was read, or is the signed file itself (sign).          *)
EmbeddedSelfConsistent ==
  \A p \in Procs :
    /\ job[p].verb = "S" /\ job[p].embedded /\ pc[p] = "ok"
    /\ SoleWriter(p, job[p].sig)
    => /\ StartsWith(fs[job[p].sig], hdr[p])
       /\ signed[hdr[p].id] = [key |-> hdr[p].key, body |-> AfterHeader(fs[job[p].sig])]

(* What -V -e leaves in the message file is, at every moment and however   *)
(* the program ends, the old file or the beginning of something signed     *)
(* (verify opens the output only after verifyembedded has returned).       *)
ExtractedIsSigned ==
  \A p \in Procs : LET f == job[p].msg IN
    job[p].verb = "V" /\ job[p].embedded /\ SoleWriter(p, f) /\ f \in DOMAIN fs =>
      \/ f \in DOMAIN Files /\ fs[f] = Files[f]
      \/ \E i \in 1..Len(signed) : IsPrefix(fs[f], signed[i].body)

(* A -V -e that ends with success has written the whole of one message     *)
(* signed by the key it was given, and nothing of a longer old file.       *)
ExtractedComplete ==
  \A p \in Procs : LET f == job[p].msg IN
    job[p].verb = "V" /\ job[p].embedded /\ SoleWriter(p, f) /\ pc[p] = "ok" =>
      fs[f] = signed[hdr[p].id].body /\ signed[hdr[p].id].key = hdr[p].key

(* Every invocation ends, even when another one truncates or extends the   *)
(* file that it is reading (readmsg, writeall).                            *)
Terminates == <>(\A p \in Procs : pc[p] \in Final)

(* A -S or -V -e that refuses its input (wrong passphrase, bad key, bad    *)
(* signature) has not touched its output file: what was there is there.    *)
RefusalKeepsOutput ==
  \A p \in Procs : pc[p] = "fail" /\ job[p].verb \in {"S", "V"} =>
    \A f \in Outputs(job[p]) : SoleWriter(p, f) =>
      IF f \in DOMAIN Files THEN f \in DOMAIN fs /\ fs[f] = Files[f] ELSE f \notin DOMAIN fs
=============================================================================
