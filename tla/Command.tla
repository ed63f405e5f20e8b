------------------------------ MODULE Command ------------------------------
(***************************************************************************)
(* The command line of signify: main of signify.c with getopt, the defaults*)
(* and usage errors, the promises it gives up with pledge(2), and then the *)
(* system calls of the verb that matter to them, in the order in which the *)
(* functions of signify.c and zsig.c make them. Several commands follow one*)
(* another on one file system, so that a key pair that was generated is    *)
(* used to sign, and the signature is verified with the public key that its*)
(* comment names. What the files hold beside their comments is in Signify, *)
(* ZSign and ZVerify: here a verification succeeds or not.                 *)
(*                                                                         *)
(* A name or a comment is a sequence of words: "/", "-", the suffixes and  *)
(* VERIFYWITH are words, everything else is put together from others. The  *)
(* name "-" stands for standard input or output.                           *)
(***************************************************************************)
EXTENDS Naturals, SequencesExt

CONSTANTS
  Words,        \* what names and comments are made of
  Lines,        \* command lines: options, each a flag and its argument, and operands
  Foreign,      \* files that nobody here wrote
  Files,        \* the files at the start, a function from names
  NULL,         \* no argument, and no key pair
  PathMax,      \* PATH_MAX, in words
  CommentMax,   \* COMMENTMAXLEN, in words
  MaxCommands   \* bound on the number of commands

Flags == {"C", "G", "S", "V", "z", "c", "e", "m", "n", "p", "s", "t", "x", "?"}

(* pair is the secret key file a file comes from, as long as that is known.*)
FileType == [kind : {"sec", "pub", "sig", "gz", "other"}, comment : Seq(Words), pair : Seq(Words) \cup {NULL},
             rounds : BOOLEAN]

ASSUME CommandAssumption ==
  /\ {"/", "-", ".sec", ".pub", ".sig", "/etc/signify", "signify", "verifywith", "signaturefrom", "secretkey", "publickey"}
       \subseteq Words
  /\ Foreign \subseteq FileType
  /\ \A f \in DOMAIN Files : Files[f] \in FileType
  /\ \A f \in Foreign \cup {Files[g] : g \in DOMAIN Files} : f.pair = NULL
  /\ \A l \in Lines : \A k \in 1..Len(l.opts) :
       /\ l.opts[k][1] \in Flags
       /\ l.opts[k][1] \in {"c", "m", "p", "s", "t", "x"} => l.opts[k][2] \in Seq(Words)
  /\ NULL \notin Seq(Words)
  /\ PathMax \in Nat /\ CommentMax \in Nat /\ MaxCommands \in Nat

VARIABLES
  disk,      \* the files: a function from the names that exist
  opt,       \* the variables of main
  todo,      \* the steps of the verb that are still to be done
  comment,   \* the comment of the signature that is verified, sigcomment
  pair,      \* where that signature, or the secret key in memory, comes from
  key,       \* the public key file that readpubkey has opened
  call,      \* the last system call
  pledged,   \* the promises left, where pledge(2) is the system's
  waived,    \* the operations given up, where it is that of pledge_waive.c
  pc,
  commands

vars == <<disk, opt, todo, comment, pair, key, call, pledged, waived, pc, commands>>

Dash == <<"-">>
NoOptions ==
  [verb |-> "NONE", embedded |-> FALSE, gzip |-> FALSE, none |-> FALSE, comment |-> <<"signify">>,
   msg |-> NULL, pub |-> NULL, sec |-> NULL, sig |-> NULL, keytype |-> NULL]

(* A system call: what it does, and to which file.                         *)
Call(op, file) == [op |-> op, file |-> file]
NoCall == Call("none", Dash)

-----------------------------------------------------------------------------
(* pledge_waive.c: what each promise lets the program keep.                *)
Promises == {"stdio", "rpath", "wpath", "cpath", "tty"}
flag_table(promise) ==
  CASE promise = "stdio" -> {"PIPE", "SOCKET"}
    [] promise \in {"rpath", "wpath"} -> {"OPEN"}
    [] OTHER -> {}
Waivable == {"INET", "UN", "PACKET", "MOUNT", "OPEN", "EXEC", "CLONE", "KILL", "PIPE"}
waive_flags(promises) == Waivable \ UNION {flag_table(p) : p \in promises}

(* pledge(2) refuses a promise that was given up, and the program exits.   *)
CanPledge(promises) == promises \subseteq pledged
Pledge(promises) ==
  /\ pledged' = promises
  /\ waived' = waived \cup waive_flags(promises)
  /\ call' = Call("pledge", Dash)

(* What a system call needs: a name that is not "-" is opened, a terminal  *)
(* is opened for reading and writing and its echo is turned off.           *)
Needs(c) ==
  CASE c.op = "read" /\ c.file # Dash -> {"rpath"}
    [] c.op = "create" /\ c.file # Dash -> {"wpath", "cpath"}
    [] c.op = "tty" -> {"tty", "rpath", "wpath"}
    [] OTHER -> {"stdio"}
Opens(c) == c.op = "tty" \/ (c.op \in {"read", "create"} /\ c.file # Dash)

-----------------------------------------------------------------------------
(* Names and comments *)

LastOf(name, word) == LET at == {k \in 1..Len(name) : name[k] = word} IN CHOOSE k \in at : \A l \in at : l <= k
Has(name, word) == \E k \in 1..Len(name) : name[k] = word
After(name, k) == SubSeq(name, k + 1, Len(name))
Base(name) == IF Has(name, "/") THEN After(name, LastOf(name, "/")) ELSE name
Stem(name) == Front(name)

SecName(name) == Len(name) >= 2 /\ Last(name) = ".sec"

(* Mutant of check_keyname_compliance: the stems are not compared.         *)
check_suffixes(pub, sec) ==
  /\ SecName(Base(sec))
  /\ pub # NULL => Len(Base(pub)) >= 2 /\ Last(Base(pub)) = ".pub"

(* pub is NULL when signing.                                               *)
check_keyname_compliance(pub, sec) ==
  /\ SecName(Base(sec))
  /\ pub # NULL => Len(Base(pub)) = Len(Base(sec)) /\ Last(Base(pub)) = ".pub" /\ Stem(Base(pub)) = Stem(Base(sec))

(* The last "-" is followed by the type and ".pub".                        *)
check_keytype(name, keytype) ==
  /\ Has(name, "-")
  /\ LET p == After(name, LastOf(name, "-"))
     IN IsPrefix(keytype, p) /\ After(p, Len(keytype)) = <<".pub">>

(* The first VERIFYWITH of a comment, and what follows it.                 *)
VERIFYWITH == "verifywith"
Hint(c) == After(c, CHOOSE k \in 1..Len(c) : c[k] = VERIFYWITH /\ \A l \in 1..(k - 1) : c[l] # VERIFYWITH)

(* Mutant of HasHint: the key may be in any directory.                     *)
HasHintAnywhere(c) == Has(c, VERIFYWITH)

HasHint(c) == Has(c, VERIFYWITH) /\ ~ Has(Hint(c), "/")

safepath == <<"/etc/signify", "/">>

(* createsig: the comment of a signature, from the name of the secret key  *)
(* or, if that was read from standard input, from its comment.             *)
SigComment(sec, c) ==
  IF sec = Dash THEN <<"signaturefrom">> \o c ELSE <<VERIFYWITH>> \o Stem(Base(sec)) \o <<".pub">>

-----------------------------------------------------------------------------
Init ==
  /\ disk = Files
  /\ opt = NoOptions /\ todo = << >>
  /\ comment = << >> /\ pair = NULL /\ key = NULL /\ call = NoCall
  /\ pledged = Promises /\ waived = {}
  /\ pc = "shell" /\ commands = 0

(* usage, errx or the end of main: a process leaves nothing behind.        *)
Exit(code) ==
  /\ pc' = code
  /\ opt' = NoOptions /\ todo' = << >>
  /\ comment' = << >> /\ pair' = NULL /\ key' = NULL /\ call' = NoCall
  /\ pledged' = Promises /\ waived' = {}

Refuse == Exit("exit1") /\ UNCHANGED <<disk, commands>>

-----------------------------------------------------------------------------
(* main *)

IsVerb(o) == o[1] \in {"C", "G", "S", "V"}

(* The loop over the options: two verbs are an error, and so is an unknown *)
(* option; of any other that is repeated the last one counts.              *)
Latest(opts, flag) ==
  LET at == {k \in 1..Len(opts) : opts[k][1] = flag} IN
  IF at = {} THEN 0 ELSE CHOOSE k \in at : \A l \in at : l <= k
Given(opts, flag) == Latest(opts, flag) # 0
Argument(opts, flag, default) == IF Given(opts, flag) THEN opts[Latest(opts, flag)][2] ELSE default

Chosen(opts) ==
  [verb |-> IF Given(opts, "C") THEN "CHECK" ELSE IF Given(opts, "G") THEN "GENERATE"
            ELSE IF Given(opts, "S") THEN "SIGN" ELSE IF Given(opts, "V") THEN "VERIFY" ELSE "NONE",
   embedded |-> Given(opts, "e"), gzip |-> Given(opts, "z"), none |-> Given(opts, "n"),
   comment |-> Argument(opts, "c", NoOptions.comment), msg |-> Argument(opts, "m", NULL),
   pub |-> Argument(opts, "p", NULL), sec |-> Argument(opts, "s", NULL),
   sig |-> Argument(opts, "x", NULL), keytype |-> Argument(opts, "t", NULL)]

(* The name of the signature is that of the message with ".sig".           *)
DefaultSig(v) == v.verb # "CHECK" /\ v.sig = NULL /\ v.msg # NULL
BadDefault(v) == DefaultSig(v) /\ (v.msg = Dash \/ Len(v.msg) + 1 >= PathMax)

Usage(l) ==
  \/ \E k \in 1..Len(l.opts) : l.opts[k][1] = "?"
  \/ Len(SelectSeq(l.opts, IsVerb)) # 1
  \/ LET v == Chosen(l.opts) IN
       \/ v.embedded /\ v.gzip
       \/ v.verb # "CHECK" /\ (l.rest # 0 \/ BadDefault(v))

(* What each command line asks for; NULL if it is refused.                 *)
Asked ==
  [l \in Lines |->
    IF Usage(l) THEN NULL
    ELSE LET v == Chosen(l.opts) IN [v EXCEPT !.sig = IF DefaultSig(v) THEN v.msg \o <<".sig">> ELSE @]]

(* A command: main pledges and looks at its options.                       *)
Start ==
  /\ pc \in {"shell", "exit0", "exit1"} /\ commands < MaxCommands
  /\ commands' = commands + 1
  /\ \E l \in Lines :
       IF Asked[l] = NULL THEN Exit("exit1") /\ UNCHANGED disk
       ELSE /\ Pledge(Promises)
            /\ opt' = Asked[l] /\ pc' = "verb"
            /\ UNCHANGED <<disk, todo, comment, pair, key>>

(* What the functions of a verb do, one system call after the other. A list*)
(* of checksums is followed by the files in it.                            *)
Steps(o) ==
  CASE o.verb = "CHECK" -> <<"sigmsg", "pubkey", "checksums">>
    [] o.verb = "GENERATE" -> <<"kdf", "newsec", "newpub">>
    [] o.verb = "SIGN" /\ ~ o.gzip -> <<"message", "seckey", "kdf", "newsig">>
    [] o.verb = "SIGN" /\ o.gzip -> <<"message", "truncate", "seckey", "kdf", "newsig">>
    [] o.verb = "VERIFY" /\ o.embedded -> <<"sigmsg", "pubkey", "output">>
    [] o.verb = "VERIFY" /\ o.gzip -> <<"sigmsg", "pubkey", "output">>
    [] OTHER -> <<"message", "sigmsg", "pubkey">>

(* GENERATE and SIGN keep all promises.                                    *)
RunUnpledged ==
  /\ pc = "verb" /\ opt.verb \in {"GENERATE", "SIGN"}
  /\ IF \/ opt.sec = NULL
        \/ opt.verb = "GENERATE" /\ (opt.pub = NULL \/ ~ check_keyname_compliance(opt.pub, opt.sec))
        \/ opt.verb = "SIGN" /\ opt.msg = NULL
       THEN Refuse
       ELSE /\ todo' = Steps(opt) /\ pc' = "run"
            /\ UNCHANGED <<disk, opt, comment, pair, key, call, pledged, waived, commands>>

(* Mutant of WillCreate: as if -z always wrote to standard output.         *)
WillCreateEmbedded(o) == o.embedded /\ o.msg \notin {NULL, Dash}

WillCreate(o) == (o.embedded \/ o.gzip) /\ o.msg \notin {NULL, Dash}

ReadPromises(o) ==
  IF o.verb = "VERIFY" /\ WillCreate(o) THEN {"stdio", "rpath", "wpath", "cpath"} ELSE {"stdio", "rpath"}

(* CHECK and VERIFY keep what they need. With -z a file that is not named  *)
(* is standard input or output.                                            *)
RunPledged ==
  /\ pc = "verb" /\ opt.verb \in {"CHECK", "VERIFY"}
  /\ IF \/ ~ CanPledge(ReadPromises(opt))
        \/ opt.verb = "CHECK" /\ opt.sig = NULL
        \/ opt.verb = "VERIFY" /\ ~ opt.gzip /\ opt.msg = NULL
       THEN Refuse
       ELSE /\ Pledge(ReadPromises(opt))
            /\ opt' = IF opt.verb = "VERIFY" /\ opt.gzip
                        THEN [opt EXCEPT !.sig = IF @ = NULL THEN Dash ELSE @, !.msg = IF @ = NULL THEN Dash ELSE @]
                        ELSE opt
            /\ todo' = Steps(opt) /\ pc' = "run"
            /\ UNCHANGED <<disk, comment, pair, key, commands>>

-----------------------------------------------------------------------------
(* The steps of the verbs *)

At(step) == pc = "run" /\ todo # << >> /\ Head(todo) = step
Continue == todo' = Tail(todo) /\ UNCHANGED <<opt, pledged, waived, pc, commands>>
FileExists(name) == name = Dash \/ name \in DOMAIN disk

(* What is read from a name: a file, or what the shell redirected.         *)
Content(name) == IF name = Dash THEN {disk[f] : f \in DOMAIN disk} \cup Foreign ELSE {disk[name]}
Put(name, f) == disk' = IF name = Dash THEN disk ELSE [n \in DOMAIN disk \cup {name} |-> IF n = name THEN f ELSE disk[n]]

(* errx of a step that finds something wrong, or a call that fails.        *)
Fail == pc = "run" /\ Refuse

(* readmsg and zsign: any file is a message. zsign puts the name of the key*)
(* into what it signs.                                                     *)
ReadMessage ==
  /\ At("message")
  /\ FileExists(opt.msg)
  /\ opt.verb = "SIGN" /\ opt.gzip => check_keyname_compliance(NULL, opt.sec)
  /\ call' = Call("read", opt.msg)
  /\ Continue /\ UNCHANGED <<disk, comment, pair, key>>

(* readb64file of createsig: the comment has to fit, and so has the one    *)
(* that is made from it or from the name.                                  *)
ReadSec ==
  /\ At("seckey") /\ FileExists(opt.sec)
  /\ opt.sec # Dash => check_keyname_compliance(NULL, opt.sec)
  /\ \E f \in Content(opt.sec) :
       /\ f.kind = "sec" /\ Len(f.comment) < CommentMax
       /\ comment' = SigComment(opt.sec, f.comment)
       /\ Len(comment') < CommentMax
       /\ pair' = IF opt.sec = Dash THEN NULL ELSE f.pair
       /\ todo' = IF f.rounds THEN Tail(todo) ELSE Tail(Tail(todo))
  /\ call' = Call("read", opt.sec)
  /\ UNCHANGED <<disk, opt, key, pledged, waived, pc, commands>>

(* kdf: no passphrase if there are no rounds; it is read from standard     *)
(* input if that is no terminal and the message does not come from there.  *)
Kdf ==
  /\ At("kdf")
  /\ call' \in
       IF opt.verb = "GENERATE" /\ opt.none THEN {call}
       ELSE {Call("tty", Dash)} \cup IF opt.verb = "SIGN" /\ opt.msg = Dash THEN {} ELSE {Call("read", Dash)}
  /\ Continue /\ UNCHANGED <<disk, comment, pair, key>>

(* writekeyfile: the file must not exist. The comment with its suffix has  *)
(* to fit.                                                                 *)
NewKeyFile(step, name, kind, suffix) ==
  /\ At(step)
  /\ name \notin DOMAIN disk /\ Len(opt.comment) + 1 < CommentMax
  /\ Put(name, [kind |-> kind, comment |-> opt.comment \o <<suffix>>, pair |-> opt.sec, rounds |-> ~ opt.none])
  /\ call' = Call("create", name)
  /\ Continue /\ UNCHANGED <<comment, pair, key>>

NewSec == NewKeyFile("newsec", opt.sec, "sec", "secretkey")
NewPub == NewKeyFile("newpub", opt.pub, "pub", "publickey")

(* zsign opens the archive before createsig has looked at the key.         *)
Truncate ==
  /\ At("truncate")
  /\ Put(opt.sig, [kind |-> "other", comment |-> << >>, pair |-> NULL, rounds |-> FALSE])
  /\ call' = Call("create", opt.sig)
  /\ Continue /\ UNCHANGED <<comment, pair, key>>

NewSig ==
  /\ At("newsig")
  /\ Put(opt.sig, [kind |-> IF opt.gzip THEN "gz" ELSE "sig", comment |-> comment, pair |-> pair, rounds |-> FALSE])
  /\ call' = Call(IF opt.gzip THEN "write" ELSE "create", opt.sig)
  /\ Continue /\ UNCHANGED <<comment, pair, key>>

(* parseb64file on a signature, detached, embedded or in an archive.       *)
ReadSig ==
  /\ At("sigmsg") /\ FileExists(opt.sig)
  /\ \E f \in Content(opt.sig) :
       /\ f.kind = IF opt.verb = "VERIFY" /\ opt.gzip THEN "gz" ELSE "sig"
       /\ Len(f.comment) < CommentMax
       /\ comment' = f.comment /\ pair' = f.pair
  /\ call' = Call("read", opt.sig)
  /\ Continue /\ UNCHANGED <<disk, key>>

(* readpubkey: the key that was named, or else the one of the comment.     *)
KeyPath(o, c) ==
  CASE o.pub # NULL -> o.pub
    [] /\ o.pub = NULL /\ HasHint(c)
       /\ o.keytype # NULL => check_keytype(Hint(c), o.keytype)
       /\ Len(safepath) + Len(Hint(c)) < PathMax -> safepath \o Hint(c)
    [] OTHER -> NULL

(* The key is read and the signature is verified with it.                 *)
ReadPub ==
  /\ At("pubkey") /\ KeyPath(opt, comment) # NULL
  /\ key' = KeyPath(opt, comment)
  /\ call' = Call("read", key')
  /\ Continue /\ UNCHANGED <<disk, comment, pair>>

(* verifychecksums reads the files of the list, whatever they are called.  *)
ReadChecked ==
  /\ At("checksums")
  /\ \E name \in DOMAIN disk : call' = Call("read", name)
  /\ Continue /\ UNCHANGED <<disk, comment, pair, key>>

(* verify and zverify: what was verified is written.                       *)
WriteOutput ==
  /\ At("output")
  /\ Put(opt.msg, [kind |-> IF opt.gzip THEN "gz" ELSE "other", comment |-> comment, pair |-> pair, rounds |-> FALSE])
  /\ call' = Call("create", opt.msg)
  /\ Continue /\ UNCHANGED <<comment, pair, key>>

Return == pc = "run" /\ todo = << >> /\ Exit("exit0") /\ UNCHANGED <<disk, commands>>

CommandStep ==
  \/ RunUnpledged \/ RunPledged
  \/ ReadMessage \/ ReadSec \/ Kdf \/ NewSec \/ NewPub \/ Truncate \/ NewSig
  \/ ReadSig \/ ReadPub \/ ReadChecked \/ WriteOutput \/ Return \/ Fail

Done == pc \in {"exit0", "exit1"} /\ commands = MaxCommands /\ UNCHANGED vars

Next == Start \/ CommandStep \/ Done

Spec == Init /\ [][Next]_vars

-----------------------------------------------------------------------------
(* No verb, with any combination of options, comes to a system call that   *)
(* needs a promise main has given up: it would be killed, and where        *)
(* pledge_waive.c stands for pledge(2) the call would fail.                *)
AllowedByPledge == Needs(call) \subseteq pledged /\ (Opens(call) => "OPEN" \notin waived)

(* When no public key is named on the command line, the one that is used   *)
(* lies in /etc/signify itself and has the type that was asked for; and if *)
(* a secret key file of a key pair signed, it has the name that -G gave the*)
(* public key of that pair, in whatever directories they are.              *)
KeyIsNamed ==
  key # NULL /\ opt.pub = NULL =>
    /\ key = safepath \o Base(key)
    /\ opt.keytype # NULL =>
         \E k \in 0..Len(key) : key = SubSeq(key, 1, k) \o <<"-">> \o opt.keytype \o <<".pub">>
    /\ \A f \in DOMAIN disk : disk[f].kind = "pub" /\ pair # NULL /\ disk[f].pair = pair => Base(f) = Base(key)
=============================================================================
