# A verification project for signify

TLA+ modules, TLC runs and TLAPS proofs about the program in `src/`: the
portable port of OpenBSD's `signify`, which creates Ed25519 key pairs, signs
and verifies files, and verifies files against a signed list of checksums.

- `X.tla` models a part of the program, `MCX.tla` gives it small values for TLC,
  the `.cfg` of a run names the properties it checks, and `XProofs.tla` proves
  properties of `X.tla` for every value of the constants.
- `PROJECT.json` lists the components, the runs, the source lines of every
  definition, the hazards the properties are for, and the findings.

To check a run: `tlc -config Pipeline.cfg MCSignify.tla`; a proof:
`tlapm SignifyProofs.tla` (two minutes for the longest).

## The system

signify is a program of one process and one thread that exits after one
command. What makes it hard is around it: other invocations and editors work on
the same files, a write may be short or the last, a pipe delivers what it likes,
signals arrive while the terminal's echo is off, and nothing it reads can be
trusted before a signature was verified. Inside, there is arithmetic on blocks,
slots, digits and limbs whose boundaries a test hardly meets.

| component | source | state it keeps | operations | what makes it correct |
|---|---|---|---|---|
| `-G` | `signify.c` `generate`, `writekeyfile` | two key files | draw, create, write, close | a pair that is complete or not usable; never another's file |
| `-S`, `-V`, `-e` | `signify.c` `sign`, `verify`, `readmsg` | the message in memory, the output file | read, sign, write; read, verify, write | the output is what was signed, and is not touched before the input was accepted |
| `-V -z` | `zsig.c` `zverify`, `copy_blocks`, `readgz_header` | the header read so far, a block, a list of hashes | parse, verify, read, check, write | only signed blocks get out; exit 0 means all of them |
| `-S -z` | `zsig.c` `zsign` | the same, and the file's size | hash, sign, copy | what it makes is accepted; room for the hashes |
| `-C` | `signify.c` `verifychecksums` | a set of names, the failures | ask, remove, insert | exit 0 means that all was verified |
| hash table | `ohash.c`, `ohash.h` | slots, tombstones, two counters | lookup, insert, remove, resize, iterate | a set of keys; probing ends |
| passphrases | `signify.c` `kdf`, `libbsd/readpassphrase.c` | echo, handlers, signals that came, the buffer | open, prompt, read, restore, send again | the echo comes back, no signal is lost, one line is the passphrase |
| digests | `libmd/sha2.c`, `libmd/sha256hl.c`, `libmd/sha512hl.c` | chaining value, buffer, count, sixteen words | update, transform, pad, hash a file | the standard's digest for every division into pieces |
| base64 | `base64.c` | a group's bits, two indexes | encode, decode | one encoding for each value |
| key stretching | `bcrypt_pbkdf.c` | a block, the key | derive | each byte set once, from all rounds |
| Ed25519 | `fe25519.c`, `sc25519.c`, `mod_ge25519.c`, `mod_ed25519.c` | limbs, points, a buffer signed in place | add, multiply, reduce, pack; sign, open | residues and points are right; only what was signed opens |
| random numbers | `libbsd/arc4random.c`, `arc4random_linux.h`, `chacha_private.h` | keystream, its counter, the bytes until fresh entropy | draw, rekey, stir, fork | no byte used twice, none recoverable later |
| Blowfish | `blowfish.c`, `bcrypt_pbkdf.c` `bcrypt_hash` | the tables, a buffer in place | expand the key, encrypt, decrypt, chain | decryption undoes encryption |
| command line | `signify.c` `main`, `usage` | options, promises | parse, give up, run a verb | no call that was given up |
| key lookup | `signify.c` `readpubkey`, `check_keytype`, `check_keyname_compliance` | the name of a key | find, check, open | never outside the safe directory, never of another kind |
| `readmsg` | `signify.c` `readmsg` | a buffer, its size and what is in it | stat, read, double | all of the file, in bounds |

They meet in these places: files (the commands, an editor), the message in
memory (`readmsg` and its callers), the comment of a signature (which `createsig`
writes and `readpubkey` takes a name from), `pledge` (given up by `main`, needed by
what it calls), calls of the hash table (`verifychecksums`),
the terminal (`readpassphrase`, the user, the shell), a pipe (`-S -z` into
`-V -z`), and the buffer that is hashed, signed and overwritten in place
(`crypto_sign_ed25519`).

## The modules

    Signify  <- MCSignify                         KeySet <= Ohash
    GzHeader <- ZVerify                           KeySet <- Checksums
    ZVerify, Checksums <- MCVerification
    GzHeader <- ZSign <- MCZSign                  ReadPassphrase <- MCReadPassphrase
    ZSign, ZVerify <- ZRoundTrip <- MCZRoundTrip  Reader <= ReadMsg
    Powers <- Limbs <- Field, Scalar <- Edwards, and Ed25519 <- MCEd25519
    Powers <- Sha2Transform, Blowfish
    Sha2 <- HashFile, Sha2Transform, Base64, BcryptPbkdf, Blowfish, Ohash, OhashInterval <- MCLibrary
    Command, ReadMsg, Chacha <- Arc4random <- MCCommand

`A <- B`: B is built on A. `A <= B`: B implements A. `SignifyProofs` and the seven
other modules of proofs, ZVerify-, ZRoundTrip-, Checksums-, ReadPassphrase-, Ed25519-,
Command- and LibraryProofs, extend the modules that they are about: ChecksumsProofs
HashFile as well, CommandProofs ReadMsg and Arc4random, Ed25519Proofs Field and Scalar, and
LibraryProofs Ohash, Base64, Sha2Transform and Blowfish.
ZRoundTripProofs uses ZVerifyProofs as an instance. MCVerification, MCLibrary and MCCommand put parts side by side that know nothing of each other, one of them at work in each
behaviour.

**Signify** has any number of invocations of `-G`, `-S` and `-V`, with and
without `-e`, on one file system. `pc[p]` is the place in the program, `buf` the
message or what is being written, `pos` the offset of the open file, `hdr` the
header read or made last. One step is one system call with the computation up
to the next: `Create` is `open` with `O_EXCL`, `Write` one turn of `writeall`,
which may take one byte or more, `ReadMsg` one `read` of `readmsg`, and every
process may `Stop` anywhere, so that what it leaves half done stays. A file is a
sequence of symbols and of halves of headers: a header can be half written, and
is not accepted then. Cryptography is ideal: a signature names the entry of
`signed` that `CreateSig` appended. A key pair is named by its process. An
editor rewrites message files. `InPath`/`OutPath` say which file a command reads
and writes; several of them may be one file.

**GzHeader, ZVerify, ZSign** model `-z`. A byte of the model is a byte of the
payload or of a name; the fixed header is `HeaderLen` bytes, a hash line is one
byte that names its block, and the signature one byte that names its signing.
`ReadHeader` is one `read` and the state machine of `readgz_header` on what it
brought; the buffer's size `sz` doubles as in the code. In ZVerify the archive
comes from a pipe in pieces of any size and is written block by block. In ZSign
the file is read twice (`HashBlock`, `CopyBlock`), an editor may rewrite it,
the disk has an end, `alias` says that the output is the input, `info` is how long the lines
before the hashes are, and `MsgEnd` where the next hash line goes in the `Space` there is. **ZRoundTrip**
puts both together: what ZSign leaves in its output, whatever way it ended, is
sent through a pipe to ZVerify.

**Ohash** models `ohash.c` one turn of a loop at a time: `PassDeleted`,
`PassOther`, `Hit` (with the move into the first tombstone), `Miss`; `Insert`
with its counters, `RemoveEntry`, and `Rehash`/`Place` for the new table. It works
with any function from keys to numbers; **OhashInterval** has the one of the code. **KeySet**
is what the table promises; `IsKeySet` is the refinement. **Checksums** uses
KeySet, not Ohash: `AskArg`, `PutArg`, `AskLine`, `CheckAsked`, `CheckLine`,
`PutFailed` are the calls in the order of `verifychecksums`.

**ReadPassphrase** has the program, the terminal (whose modes all programs
share), a user and a shell. One step is one library call of `kdf` and
`readpassphrase`; a signal arrives before any of them and has its default
effect or is caught; `Read` and `EchoBack` are affected by the job being in the
background as the kernel does it (SIGTTIN, SIGTTOU). Without a terminal the line
comes from a pipe (`Send`). After a stop everything begins anew, on a terminal
with an empty line. From a pipe, what was read before the stop is gone and the
rest of that line, or what follows it, is taken for the passphrase: the ghost
`lost` and `PassphraseIsLine` say exactly when.

**Sha2, HashFile**: `Update` and `Pad` with the byte counts of the functions of
all six digests, and the length field of one or two words; a file that is hashed
in reads of `BUFSIZ` while others write to it. A chaining value is the list of
blocks it has been given. **Sha2Transform** is what happens to one block: the
message schedule in a buffer of sixteen words that is used in a ring, in the
loop and in the unrolled form of the code, against the standard's rounds over an array of
64 or 80 words; the constants of the rounds and the distances of the rotations are
CONSTANTS. **Base64** is `b64_ntop` in closed form and `b64_pton` character by
character, with bytes and characters as they are. **BcryptPbkdf**
is the loops of `bcrypt_pbkdf` with the stride over the key; a block's hash is
the set of the rounds in it. **Blowfish** is `blowfish.c` on words of four digits,
with the tables to begin with as a CONSTANT (`^` bit by bit, since it is proved about): `Feistel` in both orders, the stream of words of a key, both ways of
expanding it, the modes `ecb` and `cbc` block by block in place, and the two
parts of `bcrypt_hash`.

**Reader, ReadMsg**: Reader promises that what is read is a sequence of pieces of
the file, each at its place, up to an end that was one; ReadMsg is `readmsg` with
`alloc` and `space`, its doubling and its two limits, on a regular file and on
anything else.

**Chacha, Arc4random**: Chacha has the counter of two words and the division of
calls into blocks; a block of keystream is named by the key and the counter that
made it. Arc4random is `arc4random.c` and `arc4random_linux.h`: `_rs_init`,
`_rs_rekey`, `_rs_stir`, `_rs_stir_if_needed`, both ways to draw. Processes fork,
and the system gives the number of a process that ended to a later one.

**Command** runs command lines one after another: `getopt`'s loop, the checks and
defaults of `main`, `pledge` as a system may have it and as
`pledge_waive.c` does it, and then for each verb the list `todo` of the calls it makes
that a promise is needed for. A name is a sequence of words, so that
suffixes, directories and the prefix of a comment are what they are in the
code, and `PATH_MAX` and `COMMENTMAXLEN` are limits in words. What Signify and
ZVerify say of the contents is here that a verification succeeds or fails.

**Limbs, Field, Scalar** are `fe25519.c` and `sc25519.c` with fewer and smaller
limbs: the same carries in the same order, the same number of passes, the same
columns left out of Barrett's quotient. The ghosts `residue` and `scalar` are
what the limbs should stand for. **Edwards** is `mod_ge25519.c` with exact
arithmetic in a small prime field: `p1p1_to_p2` leaves `t` as it was, as the
cast in the code does; `Double` is one turn of the loop of
`ge25519_double_scalarmult_vartime`, `ge25519_scalarmult_base` one of its own.
**Ed25519** is `mod_ed25519.c` with 32 bytes to a slot, free hashes, and scalars
and points known by what they are made from; `sm` is overwritten in place, in
the order of the code. An S to which the group order was added is read as the
same scalar, as `sc25519_from32bytes` reduces it, and the property says so.

## The runs

Distinct states and times are those of TLC with two workers.

| run | states | time | what it asks |
|---|---|---|---|
| pipeline | 333,437 | 40 s | three of `-G` (names shared, taken, in two directories), `-S -e`, `-V -e`, with short writes and stops: pairs complete, no public key before its secret key, no key file replaced, extractions whole, all ends |
| messages | 567,825 | 15 s | two of `-S`, `-V` with and without `-e`, on one message and signature that two edits change, or on a message nobody edits and with the output in place of the input: signed copies verify, only signed bytes are extracted, a refusal leaves the output alone |
| verification | 209,206 | 7 s | whole, cut at every byte, forged and mixed archives in pieces of every size; lists of up to three lines over two files, with bad lines and duplicates, four argument lists, a file that changes: every verdict and the exit status are right |
| zroundtrip | 109,801 | 22 s | `-S -z` of 18 files around block boundaries, an edit at any time, a full disk, output in place, key names that are short, the longest a file can have, and too long, then `-V -z` through a pipe: room for the hash lines, nothing is accepted that was not signed, a finished archive is that of the payload and is accepted |
| zsign_in_place | | | a finding, below |
| zsign_key_name | | | a finding, below |
| readpassphrase | 486,576 | 16 s | one or two passphrases from a terminal or a pipe, two signals at any time, stops and continues in the background and the foreground |
| passphrase_window | | | a finding, below |
| library | 435,523 | 60 s | files of 0 to 13 bytes hashed in blocks of 4 with each digest while one rewrite happens; one block expanded and mixed; strings of four characters and damaged encodings into targets of 0 to 5; keys of 0 to 17 bytes; a hash table of four keys, three in one slot at first, that refines KeySet and whose calls return; buffers of up to six words encrypted and decrypted |
| ed25519 | 65,253 | 75 s | field, scalars, curve and signatures, each by itself |
| pack_unreduced | | | a finding, below |
| commands | 1,677,500 | 80 s | up to three commands out of all combinations of options with names of several kinds; messages of 0 to 18 bytes with two changes; two processes that draw random bytes and fork |

Why the bounds are enough. *Files:* a message has at most two symbols and a
header two halves: enough for a write or read that is cut at each place that the
code tells apart, and for an old file that is longer than the new one. `m` and `m.sig` are rewritten by
an editor, `n` and `n.sig` only by the commands: on `n` the properties, which do not
speak of files that others write (`SoleWriter`), judge the commands that write over
what they read, one that signs the message in place among them. Two or
three processes reach every pair of actions in both orders; a third can damage
what two others share. *Archives:* blocks of 4 (2 when verified) and payloads
one below, at and above one block; the header buffer starts smaller than the
header and doubles twice. *Hash table:* the keys' home slots collide in 4 slots
and partly in 8; the minimal size is 4 and the limits for growing, shrinking and
cleaning keep the code's proportions. *Passphrases:* one line longer than the
buffer; the second signal covers two in one read, and one after a restart. *Digests:* a
block of 4 with the length's field in its last 1 or 2, so that lengths below, at
and above the padding's limit occur up to three blocks; `bitcount` wraps at 64.
The schedule and the rounds have their real numbers, 64 and 80, on words of 4
bits, where a word that is used a turn too early or too late changes the
result. *Blowfish:* digits of one bit make words of 4, in which the order of the
digits in a word and the ends of keys inside one still show; 4 rounds have the
swap of the halves on both sides; up to three blocks for the chaining. *Messages:* a first
buffer of 3 bytes doubles twice below a limit of 16, and files lie on both sides
of each. *Random numbers:* a buffer of three blocks, a key of one block and a
half, and fresh entropy due after 3 bytes: calls end below, at and above each; three
numbers of processes for two forks, so that a child can have the number of an
ancestor. *Base64:* of the alphabet, characters with no bit, one bit
below or above each place where bytes part, and all bits; bytes likewise. *Command lines:* names with and without directories, suffixes of
both kinds, the longest that fit `PATH_MAX` and `COMMENTMAXLEN` and one word more; signatures
that nobody here made, with a directory in the name, with a name that has just the length of `PATH_MAX` or one
word less, and with a comment that is too long; `COMMENTMAXLEN` is above `PATH_MAX`, so that
`readpubkey` meets a name that is too long (it is the other way round on Linux, with 1024 and 4096,
where that check is never needed, and both are 1024 on OpenBSD); three
commands, since a key pair, a signature with it, and the verification that
finds the key by the comment make three.
*Field:* 4 limbs of 3 bits with p = 2^11 - 3, since limbs and 2p keep the
proportions that the carries need (`FieldAssumption`); operands near 0, p and
2^11 and all products of two of them; the theorem is about any numbers and sizes of limbs. At full size the largest intermediate
value of `sc25519.c` is below 0.72 * 2^32, so the width of the machine's
integers does not matter there. *Exponents:* the chains of
`fe25519_invert` and `fe25519_pow2523` have fixed exponents, which `FieldIsExact`
states at full size: both sides are below 2^256 and agree modulo 18 primes whose
product is above 2^256.
*Scalars:* K = 3 limbs of 2 bits and m = 17 have a top digit with the same spare
room as the code's 85 windows; all 4096 values that can be read are read, and
455 of them need both subtractions. *Curve:* the field of 149 elements has a
group of order 8 * 17, as the real one has 8 * m; every encoding including the
ones of q and more, and every pair of scalars with points of small order among
others. `base_multiples_affine` is defined by what `ge25519_base.data` is: entry
5 i + j is j 8^i B.

Symmetry is used in the messages run only, where no liveness is checked.
Deadlock is checked in every run; each specification has a step for a program
that has ended.

**Fairness.** `WF(Step(p))` for each process: the kernel schedules every process,
and `open`, `read` and `write` on regular files and on a pipe whose other end
is being used return. `ReadPassphrase` has in addition a user who ends the line
that is being asked for and who continues a stopped job in the foreground;
without either the program rightly waits. A pipe is closed at some time. In the
library run the parts that loop (the table, whose search for an empty slot has no bound in
the code, and the derivation of a key) go on. The commands run has no fairness,
since none of its properties is about what happens at last. Nobody is obliged to
stop, to edit, to send a signal, to call the hash table, or to type anything
else.

**Mutants.** Every property of every run that passes has a mutant in
`PROJECT.json`: a plausible bug (a dropped check, a swapped order, a missing
reset, one pass too few) with which TLC finds that property violated.

## Findings

- `zsign_in_place`: `zsign` truncates the output before it copies the payload
  from the input (`zsig.c:294`, `zsig.c:305`). With the output in place of the
  input, as when an archive is signed again in place, it exits with 0 and the
  payload is gone.
- `zsign_key_name`: the 1024 bytes that `zsign` adds for the lines before the hashes
  are 'long enough for extra header information' (`zsig.c:264`), but the base name of
  the key is among it, which nothing limits before the key is opened, after the hashes
  (`zsig.c:295`). With a longer name a hash line can be stored past the end of `msg`
  before the check of the room (`zsig.c:289`), also of a file that does not
  grow; and the check leaves no room for the 0 after the last line (`zsig.c:292`).
  `SpaceSuffices` shows that neither happens if the name is one that a file can have: the
  lines then have at most 69 + 255 bytes. Of a file that grows between `fstat` and
  the reads one line can be stored past the end in any case.
- `passphrase_window`: the echo is turned off before the handlers are installed
  (`readpassphrase.c:101`, `:117`), so a signal in between leaves the shell
  without echo, which the comment at `:109` says is prevented. `EchoIsBack`
  shows that this is the only such place.
- `pack_unreduced`: `fe25519_pack` assumes its input to be below 2^255
  (`fe25519.c:105`); `ge25519_pack` hands it a product, which `reduce_mul` can
  leave at 2^255 and more. It takes a residue between 19 and a few tens of
  thousands, and was confirmed on the code itself: `fe25519_mul` of x and 20/x
  leaves 2^255 + 1. `FieldIsExact` shows that the excess is harmless to sums and
  products. The model of the curve computes exactly modulo q and does not have
  this excess.

## The proofs

What the runs show on small instances, these theorems state for all values of the
constants: any number of processes, files, names, options and signals, any
lengths and buffers.

| module | theorem | of the property | |
|---|---|---|---|
| SignifyProofs | `TypeCorrect` | `TypeOK` | |
| | `PairsComplete` | `GeneratedPair` | `-G` |
| | `SecretBeforePublic` | `PubImpliesSec` | `-G` |
| | `KeysKept` | `KeysNeverReplaced` | every step |
| | `EmbeddedAlwaysConsistent` | `EmbeddedSelfConsistent` | `-S -e` |
| | `RefusalAlwaysKeeps` | `RefusalKeepsOutput` | `-S`, `-V -e` |
| | `ExtractedAlwaysSigned` | `ExtractedIsSigned` | `-V -e` |
| | `ExtractedAlwaysComplete` | `ExtractedComplete` | `-V -e` |
| ZVerifyProofs | `HeaderAlwaysAgrees` | `HeaderAgrees` | `readgz_header` |
| | `OutputAlwaysSigned` | `OutputIsSigned` | `-V -z` |
| | `GenuineAlwaysAccepted` | `GenuineAccepted` | `-V -z` |
| ZRoundTripProofs | `SpaceAlwaysSuffices` | `SpaceSuffices` | `-S -z` |
| | `SigningAlwaysFaithful` | `SigningIsFaithful` | `-S -z` |
| | `AcceptedAlwaysSigned` | `AcceptedWasSigned` | `-S -z` to `-V -z` |
| ChecksumsProofs | `VerdictAlwaysRight` | `VerdictIsRight` | `-C` |
| | `DigestAlwaysOfFile` | `DigestIsOfFile` | the six digests |
| LibraryProofs | `EntriesAlwaysFindable` | `EntriesFindable` | |
| | `OhashIsKeySet` | `IsKeySet` | refinement |
| | `OneEncodingIsRead` | `DecodesExactly` | `b64_pton` |
| | `WrittenIsRead` | | `b64_ntop` to `b64_pton` |
| | `TransformAlwaysStandard` | `TransformIsStandard` | both forms |
| | `DecryptsAlwaysBack` | `DecryptsBack` | all modes |
| ReadPassphraseProofs | `EchoAlwaysBack` | `EchoIsBack` | |
| | `InterruptNeverLost` | `InterruptNotLost` | every step |
| | `PassphraseAlwaysLine` | `PassphraseIsLine` | |
| Ed25519Proofs | `ScalarsAlwaysReduced` | `ScalarsReduced` | `sc25519.c` |
| | `FieldAlwaysExact` | `FieldIsExact` | `fe25519.c` |
| | `OpensOnlySigned` | `OpensExactlySigned` | `-V`, `-V -e` |
| | `NoncesAlwaysDiffer` | `NoncesDiffer` | `-S` |
| CommandProofs | `PledgeAlwaysAllows` | `AllowedByPledge` | all verbs |
| | `KeyAlwaysNamed` | `KeyIsNamed` | `-V`, `-C` |
| | `MessageAlwaysFits` | `MessageFits` | `readmsg` |
| | `ReadMsgIsReader` | `IsReader` | refinement |
| | `BytesGivenOnce` | `GivenOnce` | `arc4random` |
| | `PastAlwaysGone` | `PastIsGone` | `arc4random` |
| | `AlwaysReseeded` | `ReseededInTime` | `arc4random` |

### Assumptions

They are ASSUMEs of the modules, which TLC evaluates in every run.

- Signify. `NamesAssumption`: the names are distinct. `FilesAssumption`: the
  initial files are made of symbols and headers, and none knows a key that is not
  yet drawn. `JobsAssumption`: no command line names a key file that is to be
  created as the output of `-S` or `-V -e`, and no editor writes one; no check of
  the code refuses that, so without it the theorems about keys would be false.
  The four theorems about outputs are about files that no other process and no
  editor writes (`SoleWriter`, in the properties themselves), for the same reason.
- ZVerify. A signing has full blocks except for the last, none is empty, and its
  comment has no byte 0; the header has at least its two known bytes.
- ZSign. The sizes are not 0, and every file is a sequence of bytes. With the longest
  base name that a file can have (`LongestInfo`), the lines before the hashes are shorter than the
  1024 bytes added for them: 69 + 255 bytes, as Linux limits a name to 255. How long the lines really are is
  open (`Infos`); `SpaceSuffices` has in its statement that they are shorter than 1024. ZRoundTrip assumes of
  the signings what ZVerify does.
- Checksums. Names and values are not the ones that stand for no name and a file that is missing.
- Sha2, HashFile. A word of the count holds a whole number of blocks in bits, and a file's
  length in bits fits in two words (2^128; an `off_t` has 63 bits).
- Ohash. Hash values are natural numbers, any at all; a table has four slots or
  more (`MINSIZE` is 16), and the marks of empty and removed slots are no keys.
- Base64. The characters that are not of the alphabet ('=', whitespace, the end of a
  string, any other) are distinct; strings are sequences of characters and sizes numbers.
- Sha2Transform. Blocks and chaining values are words; there is a word for each round, and
  the rounds are a multiple of eight, as the code unrolls them by eight.
- Blowfish. Keys and salts are bytes, at least one (`Blowfish_stream2word` reads the first
  of none as well), buffers are whole blocks of words, at least one (`blf_cbc_decrypt` goes back from the last), the tables hold words, and the rounds are even in number,
  as they are written out in pairs. The sizes of the code, its digits of pi and its 16 rounds are one instance.
- ReadPassphrase. The characters that end a line are not characters of a line.
- Ed25519. Messages are text: none has a hash, a key or a point in it, which is
  what makes hashes free. Buffers to open are made from signed ones and from text.
- Field. At least four limbs of at least three bits; C, which is 19 in the code, is at most
  half a limb; and what two passes can fold of a product, C * (6 * C * N + 2), fits
  below the top limb (69350 <= 2^248 in the code).
- Scalar. The top limb of m is not zero, 3 * m fits the limbs, and Barrett's quotient is
  too small by less than 3. That is put as what it comes from: the limbs of x that are not looked
  at, the remainder that is lost in `mu`, and the places of the product that are not computed add
  up to at most 2 (times m * 2^264). For the m of the code they add up to 0.37, so that `barrett_reduce`
  has enough with one subtraction where it makes two.
- Command. A name is a sequence of words, and a separator or a suffix is one
  word; no file is at first known to hold a part of a key pair.
- ReadMsg. The first buffer is not above the limit (`signify.c:185`: 64K, `:177`: 1G).
- Arc4random. Numbers of processes are not 0; the buffer holds a key and a word,
  in whole blocks; and chacha's counter does not come round within one buffer and one
  number (`chacha_private.h:188`: that is left to the user; `_rs_rekey` makes a
  new key after each buffer).

### Arguments

**Signify.** `TypeOK` is not inductive: a step writes to a file that must exist,
and types grow with `signed`. `Typed` is `TypeOK` with `Opened` (a file being
read or written exists) and the fact that signings only grow; `TypeNext` has one
lemma or step per action. `KeyInv` carries what is said of keys. Its conjuncts are `Placed`
(a process is at a place of its own command), `Drawn` (its header has its own
key), `Partial` (the file being written is exactly the beginning of that
header), `Exclusive` (no two processes write one key file), `Finished` (a file
that was completed is still complete) and `SecFirst` (whoever's public key is on
disk has a secret key on disk). They need each other: `Finished` survives the
write of another process because of `Exclusive` and because a writer of a
complete file has nothing left to write (`Partial`); `Exclusive` holds as a file
is created with `O_EXCL` and `Partial` says that a file being written exists;
`SecFirst` starts from `Finished` when the public key file is created.
`KeysKept` is about a step: `KeysGrow` shows it from `Partial` for the process
that writes, and from the assumptions for all others. `OutputInv` carries what is
said of outputs: for each process, what its output file holds at each place it
can be at (the old file before it is opened, the beginning of what is due while it is
written, all of it after `"ok"`) and that its header is one that was signed for
what is due.

**ZVerify**, in three layers, each an invariant that rests on the one before.
`HeaderInv` describes the scanner: `Places` is where each state of
`readgz_header` is in the stream, in terms of the first byte 0 after a place
(`FirstNul`), so that the outcome does not depend on where the reads fell.
`OutInv` describes the copy: the output is the start of the signer's archive
and its first `sha` blocks joined, and a part of the block being written.
`FlattenSeq` is recursive, so `Joins` says what it does one block at a time.
`GenuineInv` says of a genuine stream where in it the program is (`Cursor`):
at each place exactly as far as the blocks that were checked, so that no check can fail.

**ZSign and ZRoundTrip.** `SpaceInv`: until the last block each line stands for a whole
block of the file, whose size is the one at the open, so that there is at most one line more
than whole blocks, and `MsgEnd` is below `Space` as the lines before it take less than `Extra`. `FoundInv`: what was read of
the header is the beginning of the file, parsed as far as it goes, and where it
ended is where parsing all of the file ends (`ParsedOnce`). `CopyInv`: the lines are those of
the parts of the payload up to the offset, which at its end are its blocks (`AllParts`,
`Ceiling`), and after the seek the output is the new header and the payload up
to the offset. `LeftInv` holds for edited files and outputs in place too: the output is the old
file, or a beginning of the new header, or that header and more.
The verifier starts in the middle of a behaviour. `StartedInv` says that from then on the
invariants of ZVerifyProofs hold of it: the module is taken as an instance with the
stream that was sent (`VP`), whose assumptions `VerifierAssumed` shows, and the
verifier's steps here are steps there (`SameStep`). What it accepts is then the archive
of some signing, named by the signature at the beginning of the comment; as the
stream begins with the new header as far as it goes, that signing is the signer's
(`AcceptedNew`). `SigningIsFaithful` is not checked by itself: `SignedIsAccepted` has TLC see that
the archive put out in the end is the one of the payload.

**Checksums.** The set holds the arguments gone through, then those not yet
shown to be right; with none, the files that some line was wrong of.

**HashFile.** `IsContext` says what a context is that was given the bytes s: its chaining
value holds the whole blocks of s (`BlocksOf`), its buffer begins with what is
left over (`Holds`), and its count is the length in bits, in one word or two (`CountOf`).
`UpdateIs` shows that an update by d makes it a context of s and then d: data that leave the
block unfilled (`UpdateSmall`), the block filled up (`FillBlock`), the whole blocks
(`WholeBlocks`) with their counts (`CountsAre`), the rest stored. `PaddedIs` shows that
the padding, in one block or in two, gives the blocks of the standard's message (`BlocksExtend`,
`ZerosAre`). `HashInv` then only has to say that the context is one of what was
read, and that this is the beginning of the file as long as nobody wrote to it.

**Ohash.** `EntriesFindable` alone does not survive an insertion: the slot the caller
was given must be one that a lookup of the key comes to, and the key must be
nowhere else. `OnTheWay` says that of a lookup while it goes on: the slot it is at,
and the tombstone it remembers, are on the way of the key's hash value, and if the
key is in the table it lies on the part of the way that is still before the lookup
(`ReachedFrom`). At an empty slot nothing is before it (`LeadsEnd`), so the key is
absent, and `SlotIsFresh` holds. All else is that no step but a resize makes a slot
empty, and a change that makes none empty cuts no way (`WayStays`). `HalfMoved` is
that the new table of a resize holds exactly the entries gone through. Nothing is
needed of the hash function, of the counters or of sizes being powers of two: those
only matter for a lookup to end, which is `CallsReturn`. In the refinement the
lookup's answer is `Answer`, every insertion and removal one step of the set, and
resizes and moves are stutters.

**Base64.** `DecodesExactly` speaks of the end, `DecodeInv` of every character. Of what was
read so far without the whitespace (`Got`), all but the padding was taken, and the state is
the number of those characters modulo four (`InPlace`); the bytes up to `tarindex` are those
of the characters (`BytesAreOfChars`), and the bits of the last one that belong to a byte
not yet complete are in the target, or, if that has no room for it, are 0
(`BitsArePending`). That is enough for what is accepted (`AcceptedIsEncoding`): at the end the
pending bits are 0, so that encoding the bytes gives the last group as well. What is
refused (`Refused`) is a character in a place where no encoding has one (`EncodingIs`, `NextIs`),
a bit where it has a 0, or a byte beyond the target, of which `SizeIs` and
`SizeBeyond` show that the string stands for more bytes than it holds. `WrittenIsRead`
adds that `b64_ntop` writes an encoding of the right size (`WrittenIsEncoding`), and no two
sequences of bytes alike (`EncodedOnce`).

**Sha2Transform.** `RingHolds`: of the standard's words, the last sixteen are in the ring,
each at its number modulo 16. The four words that a new one is made of are among them
(`RingIsEnough`), the code adds them in another order (`PlusOfFour`), and the new word takes
the place of the only one that is not needed again (`NeverTwice`). `RoundIsStandard` shows that
a round that moves two sums and one that moves all registers agree in the registers' roles
(`RolesTurn`), which have come around when the number of rounds is a multiple of eight.

**Blowfish.** `^` undoes itself (`XoredBack`, by the bits), and so does a round with the
halves exchanged (`RoundBack`), whatever F is; `DecipherIsInverse` follows the two
networks toward each other. All that is made of keys and salts are tables of words
(`StreamIs`, `BlfExpandedIs`, `BcryptStateIs`). The buffer is described by a `Story`: the
blocks as they were after each encryption of the whole buffer, of which every block
is one now (`Level`). In a chained buffer that is decrypted, the block before is still as it
was encrypted, as they are taken from the last to the first (`Behind`).

**ReadPassphrase.** `ControlInv`: at which place which handlers are installed, that
the echo is off exactly between the two changes of modes in the foreground, and
what was caught is still held where it can matter. `LineInv` relates what was
read, what is still queued and the line as a whole: the line is what was `Begun`, cut to
the buffer, and then the rest in the queue.

**Scalar.** `ScalarInv` is that `sc` has the limbs of `scalar`, which is below m. The rest is about
the operators. `ProductIs` and `ProductValue` add up the columns of a product, `CarriedIs` and
`BorrowedIs` say what the loops that carry and borrow keep and lose, and `LimbsUnique` that limbs below
the base are those of their value. `QuotientIs` bounds the estimate by the true quotient from above, and
from below by two less, whatever is in the neglected places (`NeglectedIs`); hence the `K` lowest limbs are enough for
the remainder, which is below 3 * m (`RemainderIs`), and two subtractions suffice (`BarrettIs`). This answers
the question in `sc25519.c:92`, whether r < 0 can happen there: the number less the multiple of m is never negative, and
a borrow past the lowest limbs can be dropped as it is. A digit that
lies across two limbs is what it is in the number (`BitsIs`); what the signed windows lend
one another cancels out, and nothing is left above the top one, as m leaves it room (`WindowIs`).

**Field.** `FieldInv`: limbs below the base, at the top at most its half (`Small`), the right residue, and
below 2^255 unless the element is a product. `PassIs`: one pass takes p away as often as the top limb has its
half. After a sum or a difference the first pass leaves the top limb at most 2 above its half, and
the next cuts it to below 2^255 (`PassCuts`), where it stays (`FourPasses`). After a product the first folds all but
a little, and the second leaves the top limb at most at its half (`TwoPasses`): that is where
it may exceed 2^255, and as little as that the next operation does not mind. Subtraction adds 2 * p first, limb by limb no
less than any `Small` element (`FieldSubIs`). `fe25519_freeze` compares limbs: below 2^255 it sees p or more exactly if the value
is that (`SeenIs`, `UnseenBelow`), and once is enough (`PackIs`). The exponents in the chains are all of the form
2^n - 1 (`FirstExponents`, `OnesLonger`) but for the last (`LastExponent`), for every modulus at once.

**Ed25519.** `Signing` and `OpeningInv` say slot by slot what the buffer holds
between two hashes. A verification that succeeds makes R equal to the signer's R; as hashes are
free, so are the hashed buffers, and with them key and message.

**Command.** `StepsLeft` says which calls a verb still has before it, in which
order, and `PledgeInv` which promises are left then; `NeedsPromised` compares
the two for every verb. `Origin` says of every file and of the signature in
memory that what is known to come from a secret key has the names that go with
it; it is kept because `check_keyname_compliance` ran before the pair was made,
and because `createsig` writes the same base name (`HintOfNamed`, `PairNames`)
that `readpubkey` looks for.

**ReadMsg.** `InBuffer` relates the buffer's size, its room and the length read;
`OfFile` the length and the file while nobody changes it. For the refinement,
`Promise!Next` is shown for each action from `InBuffer` alone.

**Arc4random.** A byte of keystream is named by its key, block and place, and a
key by all that went into it. Of the generators whose buffer may still be given out (`Live`), no
byte was heard of that they have yet to make (`Ahead`); two generators with the same
key have the same counter (`InStep`), and keys made of one another part at fresh entropy
(`Descent`), as a child that noticed the fork takes it before it gives anything. The bytes for
the next key are in no buffer that is given out (`Unkeyed`). From these follow
`GivenOnce` and, with a key that gets longer with each rekeying (`Behind`),
`PastIsGone`. `CountInv` adds what is left of the count to what was given.

*Induction.* The library's theorems of induction take an operator as a
parameter, which the provers cannot instantiate. What the proofs need of
recursive *functions* (the blocks of an archive joined, the counter after so
many blocks) is shown through a set: `NatLeast` and `NatInSet`
derive from `WFMin` that a set of numbers with 0 and every successor has them
all. That a recursive function exists at all, so that its definition says anything, is
`RecursionExists`, from its first value and its step, and `RecursionStays` says where its
values are.

### Only model-checked

- All liveness (`Terminates`, `CallsReturn`, `SignedIsAccepted`, `KeyIsDerived`): it needs
  fairness and ENABLED.
- Of the invariants, `PackedIsSum` alone: that the formulas of `mod_ge25519.c` add points is the group law of
  the curve, identities between polynomials of a degree that the provers do not find, with divisions modulo q.

## What is not modelled

- The shims for other systems (`libbsd/bsd`, `progname.c`, `strlcpy.c`,
  `freezero.c`, `explicit_bzero.c`, `timingsafe_bcmp.c`) are declarations, or
  functions of a few lines whose state does not outlive a call. Zeroing memory
  and constant time cannot be seen in a model of values.
- The build and the regression tests.
- The stubs of `arc4random` for systems other than Linux, which a build on Linux leaves out.
- The real tables and sizes: what the rotations of SHA-2, the digits of pi, a
  block of chacha and a hash are is left open, as a constant, a small function
  or the list of what went into it. That they have the right values is what test vectors show.
- Standard input and output as files (`-`) in Signify and ZSign (Command has
  them), pipes for key files, symbolic links and `O_NOFOLLOW`; two names of one
  file (hard links) in Signify.
- The text of comment lines, dates, the key and algorithm lines in an archive's
  comment (but how long these are is, `info` in ZSign), formats of checksum lines: their scanning either succeeds or fails.
- `-q`, which only says what is printed.
- The short scalars and windows of five bits in the Ed25519 code, which nothing calls.
- In `readpassphrase`, the flags that `kdf` never passes.

## Plan

1. Signify with its proofs; archives; checksums and the hash table; passphrases;
   the library; Ed25519. *Done.*
2. Arc4random and Chacha. *Done.*
3. ReadMsg and the read it promises. *Done.*
4. Command: options, `pledge`, the finding of keys. Also Blowfish, the
   compression functions, and passphrases from a pipe. *Done.*
5. Proofs about Signify, ZVerify, Checksums, HashFile, Ohash (which implements KeySet),
   ReadPassphrase, Ed25519, Command, ReadMsg (which implements Reader),
   Arc4random, ZSign, ZRoundTrip, Base64, Sha2Transform, Blowfish, Field and Scalar. *Done.*
