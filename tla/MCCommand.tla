------------------------------ MODULE MCCommand ----------------------------
(* Command lines for Command: every combination of the options that a verb *)
(* looks at, over key pairs in two directories, and some that are wrong;   *)
(* messages for ReadMsg, which commands begin with; and processes that draw*)
(* random numbers. One of the three is at work in each behaviour.          *)
EXTENDS Command, ReadMsg, Arc4random

CONSTANTS P1, P2

TheProcesses == {P1, P2}

TheWords ==
  {"/", "-", ".sec", ".pub", ".sig", "/etc/signify", "signify", "verifywith", "signaturefrom", "secretkey", "publickey",
   "k", "f", "w", "d", "m", "j", "s", "x", "l", "o", "n", "g", "e", "r", "..", "a", "b", "c", "long"}

K == <<"k", "-", "f", "w", ".sec">>
KPub == <<"k", "-", "f", "w", ".pub">>
Dir(name) == <<"d", "/">> \o name

Maybe(S) == {<< >>} \cup {<<o>> : o \in S}
Msg == {<<"m", f>> : f \in {<<"m">>, Dash}}
Sec == {<<"s", f>> : f \in {K, Dir(K), Dash}}
Pub == {<<"p", f>> : f \in {KPub, Dir(KPub), <<"j", ".pub">>, <<"j", "-", "f", "w", ".pub">>}}
Sig == {<<"x", f>> : f \in {<<"s">>, Dash}}
Type == {<<"t", t>> : t \in {<<"f", "w">>, <<"f">>}}
Note == {<<"c", <<VERIFYWITH, "x", "-", "f", ".pub">> >>, <<"c", <<"l", "o", "n", "g", "e", "r", "l", "o", "n">> >>}
Flag(f) == {<<f, NULL>>}

Join(A, B) == {a \o b : a \in A, b \in B}
All(o) == {<<o>>}
Generating ==
  Join(All(<<"G", NULL>>), Join(Maybe(Flag("n")), Join(Maybe(Note), Join(Maybe(Sec), Maybe(Pub)))))
Signing ==
  Join(All(<<"S", NULL>>), Join(Maybe(Flag("e")), Join(Maybe(Flag("z")), Join(Maybe(Sec), Join(Maybe(Msg), Maybe(Sig))))))
Verifying ==
  Join(All(<<"V", NULL>>), Join(Maybe(Flag("e")), Join(Maybe(Flag("z")),
    Join(Maybe(Type), Join({<< >>, <<<<"p", KPub>>>>}, Join(Maybe(Msg), Maybe(Sig)))))))
Checking ==
  Join(All(<<"C", NULL>>), Join(Maybe(Type), Join({<< >>, <<<<"p", KPub>>>>}, Maybe(Sig))))
Wrong ==
  {<< >>, <<<<"?", NULL>>>>, <<<<"S", NULL>>, <<"V", NULL>>>>,
   <<<<"V", NULL>>, <<"m", [k \in 1..8 |-> "long"]>>, <<"p", KPub>> >>,
   <<<<"V", NULL>>, <<"m", [k \in 1..9 |-> "long"]>>, <<"p", KPub>> >>}

TheLines ==
  {[opts |-> o, rest |-> 0] : o \in Generating \cup Signing \cup Verifying \cup Checking \cup Wrong}
    \cup {[opts |-> o, rest |-> 1] : o \in Checking \cup {<<<<"V", NULL>>, <<"m", <<"m">>>>, <<"p", KPub>> >>}}

(* Signatures that nobody here made: the hint names a key elsewhere; a "/" *)
(* comes before the hint; the path of the key has PathMax words, and one   *)
(* less; and the comment has CommentMax words.                             *)
Sign(c) == [kind |-> "sig", comment |-> c, pair |-> NULL, rounds |-> FALSE]
TheForeign ==
  {Sign(<<VERIFYWITH, "..", "/", "x", "-", "f", "w", ".pub">>), Sign(<<"/", VERIFYWITH, "x", "-", "f", "w", ".pub">>),
   Sign(<<VERIFYWITH, "a", "b", "c", "d", "-", "f", "w", ".pub">>), Sign(<<VERIFYWITH, "a", "b", "c", "-", "f", "w", ".pub">>),
   Sign(<<VERIFYWITH, "a", "b", "c", "d", "e", "g", "-", "f", "w", ".pub">>)}
TheFiles ==
  [f \in {<<"m">>} |-> [kind |-> "other", comment |-> << >>, pair |-> NULL, rounds |-> FALSE]]

(* The first buffer is doubled twice before it passes half of the limit;   *)
(* what a file changes to tells its bytes from those it had.               *)
TheContents == {[k \in 1..n |-> k] : n \in 0..18} \cup {[k \in 1..n |-> 100 + k] : n \in {0, 1, 3, 6, 7, 16, 17}}

CommandIdle ==
  /\ disk = << >> /\ opt = NoOptions /\ todo = << >>
  /\ comment = << >> /\ pair = NULL /\ key = NULL /\ call = NoCall
  /\ pledged = Promises /\ waived = {} /\ pc = "idle" /\ commands = 0
ReadMsgIdle ==
  /\ file = << >> /\ regular = FALSE /\ msg = << >> /\ alloc = 0 /\ space = 0
  /\ reading = "idle" /\ changes = 0

MCInit ==
  \/ Init /\ ReadMsgIdle /\ RandomIdle
  \/ CommandIdle /\ ReadMsgInit /\ RandomIdle
  \/ CommandIdle /\ ReadMsgIdle /\ RandomInit

MCNext ==
  \/ (Start \/ CommandStep \/ Done) /\ UNCHANGED <<rvars, avars>>
  \/ ReadMsgNext /\ UNCHANGED <<vars, avars>>
  \/ (RandomStep \/ RandomCall) /\ UNCHANGED <<vars, rvars>>
  \/ /\ reading \in {"done", "toolarge", "failed"} \/ (pc = "idle" /\ rpc = "idle")
     /\ UNCHANGED <<vars, rvars, avars>>

MCSpec == MCInit /\ [][MCNext]_<<vars, rvars, avars>>
=============================================================================
