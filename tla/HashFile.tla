------------------------------ MODULE HashFile ------------------------------
(* SHA256File and SHA512File (libmd/sha256hl.c, libmd/sha512hl.c), which   *)
(* verifychecksum calls: a file is hashed as it is read, up to the size    *)
(* that it had when it was opened, while others may write to it; and       *)
(* SHA512_256Data, with which zverify and zsign hash a block. The digests  *)
(* that libmd has for others are made of bytes in memory, too.             *)
EXTENDS Sha2

CONSTANTS
  Contents,    \* what a file can hold: sequences of bytes
  BufSize,     \* BUFSIZ
  MaxRewrites

(* The number of the bits of a file fits in two words.                     *)
ASSUME HashFileAssumption ==
  /\ \A c \in Contents : c \in Seq(Int) /\ 8 * Len(c) < Word * Word
  /\ BufSize \in Nat /\ MaxRewrites \in Nat

VARIABLES algo, file, len, foff, ctx, seen, digest, hashing, rewrites

hvars == <<algo, file, len, foff, ctx, seen, digest, hashing, rewrites>>

NoDigest == << >>
FileAlgorithms == {"SHA256", "SHA512"}
DataAlgorithms == {"SHA224", "SHA384", "SHA512_224", "SHA512_256"}
OneWord == {"SHA224", "SHA256"}

InitOf(a) ==
  CASE a = "SHA224" -> SHA224Init [] a = "SHA256" -> SHA256Init [] a = "SHA384" -> SHA384Init
    [] a = "SHA512" -> SHA512Init [] a = "SHA512_224" -> SHA512_224Init [] a = "SHA512_256" -> SHA512_256Init
UpdateOf(a, c, data) == IF a \in OneWord THEN SHA256Update(c, data) ELSE SHA512Update(c, data)
FinalOf(a, c) ==
  CASE a = "SHA224" -> SHA224Final(c) [] a = "SHA256" -> SHA256Final(c) [] a = "SHA384" -> SHA384Final(c)
    [] a = "SHA512" -> SHA512Final(c) [] a = "SHA512_224" -> SHA512_224Final(c) [] a = "SHA512_256" -> SHA512_256Final(c)

HashInit ==
  /\ algo \in FileAlgorithms \cup DataAlgorithms /\ file \in Contents
  /\ ctx = InitOf(algo)
  /\ len = 0 /\ foff = 0 /\ seen = << >> /\ digest = NoDigest
  /\ hashing = "open" /\ rewrites = 0

(* The size is taken once (fstat).                                         *)
OpenFile ==
  /\ hashing = "open" /\ algo \in FileAlgorithms
  /\ len' = Len(file) /\ hashing' = "read"
  /\ UNCHANGED <<algo, file, foff, ctx, seen, digest, rewrites>>

(* No more is asked for than is left of the size; read(2) may give less.   *)
ReadChunk ==
  /\ hashing = "read"
  /\ \E n \in 1..BufSize :
       /\ n <= len /\ foff + n <= Len(file)
       /\ LET data == SubSeq(file, foff + 1, foff + n) IN
            ctx' = UpdateOf(algo, ctx, data) /\ seen' = seen \o data
       /\ foff' = foff + n /\ len' = len - n
       /\ hashing' = IF n = len THEN "final" ELSE "read"
  /\ UNCHANGED <<algo, file, digest, rewrites>>

(* read(2) gives nothing: nothing was asked for, or the file has shrunk.   *)
ReadNothing ==
  /\ hashing = "read"
  /\ len = 0 \/ foff >= Len(file)
  /\ hashing' = "final"
  /\ UNCHANGED <<algo, file, len, foff, ctx, seen, digest, rewrites>>

(* A failing open, fstat or read: the file counts as wrong.                *)
ReadFails ==
  /\ hashing \in {"open", "read"} /\ algo \in FileAlgorithms
  /\ hashing' = "done"
  /\ UNCHANGED <<algo, file, len, foff, ctx, seen, digest, rewrites>>

FileEnd ==
  /\ hashing = "final"
  /\ digest' = FinalOf(algo, ctx)
  /\ hashing' = "done"
  /\ UNCHANGED <<algo, file, len, foff, ctx, seen, rewrites>>

(* SHA512_256Data, or a caller of the other functions: what is hashed is in*)
(* memory already.                                                         *)
HashData ==
  /\ hashing = "open" /\ algo \in DataAlgorithms
  /\ digest' = FinalOf(algo, UpdateOf(algo, ctx, file)) /\ seen' = file
  /\ hashing' = "done"
  /\ UNCHANGED <<algo, file, len, foff, ctx, rewrites>>

Rewrite ==
  /\ hashing \notin {"idle", "done"} /\ rewrites < MaxRewrites
  /\ \E c \in Contents : file' = c
  /\ rewrites' = rewrites + 1
  /\ UNCHANGED <<algo, len, foff, ctx, seen, digest, hashing>>

HashStep == OpenFile \/ ReadChunk \/ ReadNothing \/ ReadFails \/ FileEnd \/ HashData

HashSpec == HashInit /\ [][HashStep \/ Rewrite]_hvars

-----------------------------------------------------------------------------
(* A digest is the standard's digest of what was read, whatever the pieces *)
(* were, and of the whole file if nobody wrote to it. SHA-256 is defined   *)
(* for messages whose length fits in one word.                             *)
DigestIsOfFile ==
  digest # NoDigest =>
    /\ (algo \in OneWord => 8 * Len(seen) < Word) => digest = Standard(algo, seen)
    /\ rewrites = 0 => seen = file
=============================================================================
