----------------------------- MODULE MCSignify -----------------------------
(* Small instances of Signify for TLC: racing -G on shared names; and -S   *)
(* and -V, with and without -e, on files that are read, written and edited *)
(* at the same time.                                                       *)
EXTENDS Signify, TLC

CONSTANTS p1, p2, p3, k0, k1, a, b, pw

(* check_keyname_compliance compares base names only, so the secret key    *)
(* and the public key of one name may live in different directories.       *)
AllPaths == {"a/k.sec", "b/k.sec", "a/k.pub", "b/k.pub", "k0.sec", "k0.pub", "k1.pub",
             "m", "m.sig", "s.sig", "out", "n", "n.sig"}

G(sec, pub, none) == [verb |-> "G", sec |-> sec, pub |-> pub, msg |-> "m", sig |-> "m.sig",
                      embedded |-> FALSE, none |-> none]
S(sec, msg, sig, e) == [verb |-> "S", sec |-> sec, pub |-> "k0.pub", msg |-> msg, sig |-> sig,
                        embedded |-> e, none |-> FALSE]
V(pub, msg, sig, e) == [verb |-> "V", sec |-> "k0.sec", pub |-> pub, msg |-> msg, sig |-> sig,
                        embedded |-> e, none |-> FALSE]

OldSig == Header([kind |-> "sig", key |-> k0, id |-> 1])
OldSignings == <<[key |-> k0, body |-> <<a>>]>>
SomeFiles == [f \in {"k0.sec", "k0.pub", "k1.pub", "m", "m.sig", "s.sig", "n", "n.sig"} |->
  CASE f = "k0.sec" -> Header([kind |-> "sec", key |-> k0, pass |-> pw])
    [] f = "k0.pub" -> Header([kind |-> "pub", key |-> k0])
    [] f = "k1.pub" -> Header([kind |-> "pub", key |-> k1])
    [] f \in {"m", "n"} -> <<a, b>>
    [] f \in {"m.sig", "s.sig", "n.sig"} -> OldSig \o <<a>>]

(* A message signed in place, a signed one extracted over itself, both of  *)
(* files that an editor rewrites and of files that it leaves alone; one    *)
(* message extracted twice to one file, a detached signature, the wrong    *)
(* public key, and a file verified while it is signed.                     *)
MessageJobs == {S("k0.sec", "m", "m.sig", TRUE), S("k0.sec", "m", "s.sig", TRUE),
                S("k0.sec", "m", "m", TRUE), S("k0.sec", "n", "n", TRUE),
                S("k0.sec", "m", "m.sig", FALSE),
                V("k0.pub", "m", "m.sig", FALSE), V("k0.pub", "out", "m.sig", TRUE),
                V("k1.pub", "m", "m.sig", TRUE), V("k0.pub", "m.sig", "m.sig", TRUE),
                V("k0.pub", "n.sig", "n.sig", TRUE), V("k1.pub", "n.sig", "n.sig", TRUE)}
MessageEdits == {<<"m", <<b>>>>, <<"m.sig", OldSig \o <<b>>>>}

(* Key pairs are generated under names that are shared or taken, while    *)
(* one of them is used to sign and to verify.                              *)
PipelineJobs == {G("a/k.sec", "a/k.pub", FALSE), G("a/k.sec", "b/k.pub", TRUE), G("b/k.sec", "a/k.pub", TRUE),
                 S("a/k.sec", "m", "m.sig", TRUE), V("a/k.pub", "out", "m.sig", TRUE)}
PipelineFiles == [f \in {"b/k.pub", "m", "m.sig", "out"} |->
  CASE f = "b/k.pub" -> Header([kind |-> "pub", key |-> k0])
    [] f = "m" -> <<a>> [] f = "m.sig" -> OldSig \o <<a>> [] f = "out" -> <<b, b>>]

Symmetric == Permutations(Procs)
=============================================================================
