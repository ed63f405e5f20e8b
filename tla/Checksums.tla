----------------------------- MODULE Checksums -----------------------------
(* signify -C: the checksum list of a signed message is gone through line  *)
(* by line (verifychecksums of signify.c), with a hash table that holds the*)
(* files still to be verified, if some were named on the command line, or  *)
(* else those that failed.  The table is the set of keys of KeySet, which  *)
(* Ohash implements.  Files may change while the list is gone through.     *)
EXTENDS Integers, Sequences, FiniteSets

CONSTANTS
  Files,      \* names of files
  Values,     \* what a file, or the hash of it, may be
  Missing,    \* a file that cannot be read
  Invalid,    \* a hash that is neither hexadecimal nor base64
  NoKey,
  Messages,   \* the signed messages, each a sequence of lines
  ArgLists,   \* the files named on the command line
  MaxEdits    \* bound on the number of edits

BadLine == [file |-> "bad"]
LineType == [file : Files, algo : {"SHA256", "SHA512", "OTHER"}, hash : Values \cup {Invalid}]

ASSUME ChecksumsAssumption ==
  /\ NoKey \notin Files
  /\ Missing \notin Values
  /\ Messages \subseteq Seq(LineType \cup {BadLine})
  /\ ArgLists \subseteq Seq(Files)
  /\ MaxEdits \in Nat

VARIABLES
  msg, argv,   \* the message and the command line
  disk,        \* the files
  set, key, answer,  \* the hash table and the lookup in it
  cpc, i,      \* where the program is, and the argument or the line
  ok,          \* the lines that were printed as "OK"
  edits

cvars == <<msg, argv, disk, set, key, answer, cpc, i, ok, edits>>
hashtable == <<set, key, answer>>

Myh == INSTANCE KeySet WITH Keys <- Files

Ends == {"exit0", "exit1", "failed"}

CheckInit ==
  /\ msg \in Messages /\ argv \in ArgLists
  /\ disk \in [Files -> Values \cup {Missing}]
  /\ Myh!Init
  /\ cpc = "start" /\ i = 1 /\ ok = {} /\ edits = 0

(* check: nothing is looked at before verifyembedded has returned.         *)
Begin ==
  /\ cpc = "start"
  /\ cpc' \in {"exit1", IF argv = << >> THEN "lines" ELSE "args"}
  /\ UNCHANGED <<msg, argv, disk, hashtable, i, ok, edits>>

-----------------------------------------------------------------------------
(* The arguments are put into the table, each once. *)

AskArg ==
  /\ cpc = "args" /\ answer = "none" /\ i <= Len(argv)
  /\ Myh!Ask(argv[i])
  /\ UNCHANGED <<msg, argv, disk, cpc, i, ok, edits>>

Known == answer = "found" /\ Myh!Forget
New == answer = "absent" /\ Myh!Insert

PutArg ==
  /\ cpc = "args"
  /\ Known \/ New
  /\ i' = i + 1
  /\ UNCHANGED <<msg, argv, disk, cpc, ok, edits>>

ArgsEnd ==
  /\ cpc = "args" /\ answer = "none" /\ i > Len(argv)
  /\ cpc' = "lines" /\ i' = 1
  /\ UNCHANGED <<msg, argv, disk, hashtable, ok, edits>>

Lookup ==
  /\ Myh!Answer
  /\ UNCHANGED <<msg, argv, disk, cpc, i, ok, edits>>

-----------------------------------------------------------------------------
(* verifychecksum: an unknown algorithm or a hash that cannot be decoded   *)
(* ends the program.                                                       *)
Fatal(line) == line.algo = "OTHER" \/ line.hash = Invalid
Matches(line) == disk[line.file] = line.hash
NextLine == i' = i + 1 /\ UNCHANGED <<msg, argv, disk, edits>>
Leave(code) == cpc' = code /\ UNCHANGED <<msg, argv, disk, hashtable, i, ok, edits>>

AtLine == cpc = "lines" /\ answer = "none" /\ i <= Len(msg)

Unparsable == AtLine /\ msg[i] = BadLine /\ Leave("exit1")

AskLine ==
  /\ AtLine /\ argv # << >> /\ msg[i] # BadLine
  /\ Myh!Ask(msg[i].file)
  /\ UNCHANGED <<msg, argv, disk, cpc, i, ok, edits>>

(* A file that was not named, or that was found right before.              *)
NotAsked ==
  /\ cpc = "lines" /\ answer = "absent"
  /\ Myh!Forget
  /\ NextLine /\ UNCHANGED <<cpc, ok>>

CheckAsked ==
  /\ cpc = "lines" /\ answer = "found"
  /\ \/ Fatal(msg[i]) /\ Leave("exit1")
     \/ /\ ~ Fatal(msg[i]) /\ Matches(msg[i])
        /\ Myh!Remove /\ ok' = ok \cup {i}
        /\ NextLine /\ UNCHANGED cpc
     \/ /\ ~ Fatal(msg[i]) /\ ~ Matches(msg[i])
        /\ Myh!Forget
        /\ NextLine /\ UNCHANGED <<cpc, ok>>

(* With no arguments every line is checked, and a failure is looked up.    *)
CheckLine ==
  /\ AtLine /\ argv = << >> /\ msg[i] # BadLine
  /\ \/ Fatal(msg[i]) /\ Leave("exit1")
     \/ /\ ~ Fatal(msg[i]) /\ Matches(msg[i])
        /\ ok' = ok \cup {i}
        /\ NextLine /\ UNCHANGED <<cpc, hashtable>>
     \/ /\ ~ Fatal(msg[i]) /\ ~ Matches(msg[i])
        /\ Myh!Ask(msg[i].file)
        /\ cpc' = "fail"
        /\ UNCHANGED <<msg, argv, disk, i, ok, edits>>

PutFailed ==
  /\ cpc = "fail"
  /\ Known \/ New
  /\ cpc' = "lines"
  /\ NextLine /\ UNCHANGED ok

(* Mutant of LinesEnd: the table is only looked at with arguments.         *)
LinesEndArgs ==
  /\ cpc = "lines" /\ answer = "none" /\ i > Len(msg)
  /\ Leave(IF set # {} /\ argv # << >> THEN "failed" ELSE "exit0")

(* What is in the table is printed as "FAIL".                              *)
LinesEnd ==
  /\ cpc = "lines" /\ answer = "none" /\ i > Len(msg)
  /\ Leave(IF set # {} THEN "failed" ELSE "exit0")

-----------------------------------------------------------------------------
Edit ==
  /\ edits < MaxEdits /\ cpc \notin Ends
  /\ \E f \in Files, v \in Values \cup {Missing} : disk' = [disk EXCEPT ![f] = v]
  /\ edits' = edits + 1
  /\ UNCHANGED <<msg, argv, hashtable, cpc, i, ok>>

CheckStep ==
  \/ Begin
  \/ AskArg \/ PutArg \/ ArgsEnd \/ Lookup
  \/ Unparsable \/ AskLine \/ NotAsked \/ CheckAsked
  \/ CheckLine \/ PutFailed \/ LinesEnd

CheckDone == cpc \in Ends /\ UNCHANGED cvars

CheckNext == CheckStep \/ Edit \/ CheckDone

CheckSpec == CheckInit /\ [][CheckNext]_cvars

-----------------------------------------------------------------------------
Named == {argv[k] : k \in 1..Len(argv)}
Shown == {msg[k].file : k \in ok}

(* Exit 0 means that every file that was named was seen to be right, or,   *)
(* with none named, every line of the list (signify.1, -C). The files that *)
(* are printed as "FAIL" are those named that no line showed to be right,  *)
(* whether the list has them once, twice or not at all; with none named,   *)
(* those of which some line was wrong. And if no file changes, and the list*)
(* is gone through to its end, the exit status follows from the list and   *)
(* the disk, not from the order of lines.                                  *)
VerdictIsRight ==
  LET lines == {msg[k] : k \in 1..Len(msg)} IN
  /\ cpc = "exit0" => IF argv = << >> THEN ok = 1..Len(msg) ELSE Named \subseteq Shown
  /\ cpc = "failed" =>
       set = IF argv = << >> THEN {msg[k].file : k \in 1..Len(msg) \ ok} ELSE Named \ Shown
  /\ edits = 0 /\ cpc \in {"exit0", "failed"} =>
       (cpc = "exit0") =
         IF argv = << >> THEN \A l \in lines : Matches(l)
         ELSE \A f \in Named : \E l \in lines : l # BadLine /\ l.file = f /\ Matches(l)
=============================================================================
