------------------------------- MODULE ReadMsg -----------------------------
(* readmsg of signify.c: a message is read into a buffer that is as large  *)
(* as the file was when it was opened, or of some size for anything that is*)
(* not a regular file, and that is doubled whenever it is full, up to a    *)
(* limit. A read may return less than was asked for, and a regular file may*)
(* grow, shrink and change while it is read.                               *)
EXTENDS Naturals, Sequences

CONSTANTS
  Contents,     \* what the file may hold
  FirstSpace,   \* 64 * 1024 - 1
  maxmsgsize,
  MaxChanges    \* bound on the number of changes of the file

ASSUME ReadMsgAssumption ==
  /\ \A c \in Contents : c \in Seq(Nat)
  /\ FirstSpace \in Nat \ {0} /\ maxmsgsize \in Nat /\ MaxChanges \in Nat
  /\ FirstSpace <= maxmsgsize

VARIABLES
  file, regular,  \* the file, and whether it is a regular one
  msg,            \* what is in the buffer: msglen is its length
  alloc,          \* the size of the buffer
  space,          \* what read(2) may put there
  reading,        \* where readmsg is, or how it ended
  changes

rvars == <<file, regular, msg, alloc, space, reading, changes>>

ReadMsgInit ==
  /\ file \in Contents /\ regular \in BOOLEAN
  /\ msg = << >> /\ alloc = 0 /\ space = 0
  /\ reading = "stat" /\ changes = 0

StatTooLarge == regular /\ Len(file) > maxmsgsize

(* Mutant of FirstSize: no room for the read that finds the end.           *)
FirstSizeExact == IF regular THEN Len(file) ELSE FirstSpace

FirstSize == IF regular THEN Len(file) + 1 ELSE FirstSpace

(* fstat and malloc, with a byte for the NUL at the end.                   *)
Stat ==
  /\ reading = "stat"
  /\ IF StatTooLarge
       THEN reading' = "toolarge" /\ UNCHANGED <<alloc, space>>
       ELSE /\ space' = FirstSize /\ alloc' = space' + 1
            /\ reading' = "read"
  /\ UNCHANGED <<file, regular, msg, changes>>

(* Mutant of Grown: as much again, but no byte for the NUL.                *)
GrownTight == [space |-> Len(msg), alloc |-> 2 * Len(msg)]

(* The buffer at the top of the loop: doubled if it is full.               *)
Grown == [space |-> Len(msg), alloc |-> Len(msg) + Len(msg) + 1]
Buffer == IF space = 0 THEN Grown ELSE [space |-> space, alloc |-> alloc]
TooLarge == reading = "read" /\ space = 0 /\ 2 * Len(msg) > maxmsgsize

GrowTooLarge ==
  /\ TooLarge
  /\ reading' = "toolarge"
  /\ UNCHANGED <<file, regular, msg, alloc, space, changes>>

Smaller(x, y) == IF x < y THEN x ELSE y

(* One turn of the loop in which read(2) returns some bytes.               *)
ReadSome ==
  /\ reading = "read" /\ ~ TooLarge
  /\ \E n \in 1..Smaller(Buffer.space, Len(file) - Len(msg)) :
       /\ msg' = msg \o SubSeq(file, Len(msg) + 1, Len(msg) + n)
       /\ space' = Buffer.space - n
  /\ alloc' = Buffer.alloc
  /\ UNCHANGED <<file, regular, reading, changes>>

(* One in which it returns 0: at the end of the file, or because it was    *)
(* asked for nothing. The NUL is put after the message.                    *)
ReadEnd ==
  /\ reading = "read" /\ ~ TooLarge
  /\ Buffer.space = 0 \/ Len(msg) >= Len(file)
  /\ space' = Buffer.space /\ alloc' = Buffer.alloc
  /\ reading' = "done"
  /\ UNCHANGED <<file, regular, msg, changes>>

(* A call that fails.                                                      *)
ReadFails ==
  /\ reading \in {"stat", "read"}
  /\ reading' = "failed"
  /\ UNCHANGED <<file, regular, msg, alloc, space, changes>>

(* Another program: what was sent through a pipe stays as it is.           *)
Change ==
  /\ regular /\ changes < MaxChanges /\ reading \in {"stat", "read"}
  /\ file' \in Contents /\ changes' = changes + 1
  /\ UNCHANGED <<regular, msg, alloc, space, reading>>

ReadMsgStep == Stat \/ GrowTooLarge \/ ReadSome \/ ReadEnd \/ ReadFails

ReadMsgNext == ReadMsgStep \/ Change

ReadMsgSpec == ReadMsgInit /\ [][ReadMsgNext]_rvars

-----------------------------------------------------------------------------
(* The message and the NUL after it never leave the buffer, wherever the   *)
(* file grows; a message above the limit is never accepted, and one is only*)
(* refused if it is above the limit or, where its size was not known at the*)
(* open, at least above half of it.                                        *)
MessageFits ==
  /\ reading \in {"read", "done"} => Len(msg) + space < alloc
  /\ reading = "done" => Len(msg) <= maxmsgsize
  /\ reading = "toolarge" /\ changes = 0 =>
       IF regular THEN Len(file) > maxmsgsize ELSE 2 * Len(file) > maxmsgsize

(* readmsg is a reader of the file: the doublings lose and repeat nothing, *)
(* and it takes nothing else for the end of the file.                      *)
Promise ==
  INSTANCE Reader WITH
    outcome <- CASE reading = "done" -> "message"
                 [] reading \in {"toolarge", "failed"} -> "refused"
                 [] OTHER -> "none"
IsReader == Promise!Spec
=============================================================================
