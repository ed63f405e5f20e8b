-------------------------------- MODULE Ed25519 -----------------------------
(* mod_ed25519.c: signatures are made and opened in place, in buffers of   *)
(* which every 32 bytes are a slot here: R, S, and the message. Hashes are *)
(* free: different slots have different hashes, and a scalar or a point is *)
(* known by what it is made from.                                          *)
EXTENDS Integers, Sequences, FiniteSets

CONSTANTS
  Seeds,      \* the secrets of 32 bytes that keys are made from
  Contents,   \* what a slot of a message can hold
  Messages,   \* sequences of slots
  Unsigned,   \* buffers to open that no signature was put in
  MaxSigned   \* bound on the signatures made

VARIABLES
  signed,   \* [seed, msg, sm] for every signature made
  sm,       \* the buffer that is signed in, or that is opened
  msg,      \* the message to be signed
  sk,       \* the secret key of the signer: its seed, and its public key
  pk,       \* the public key it is opened with
  nonce,    \* sck, the scalar R is made from
  hram,     \* the hash of R, the public key and the message
  output,   \* m, where an opened message goes, and the hash is made before
  mlen,     \* its length
  ret,      \* what crypto_sign_ed25519_open returns
  doing     \* the next step

dvars == <<signed, sm, msg, sk, pk, nonce, hram, output, mlen, ret, doing>>

Seed(k) == <<"seed", k>>
Public(k) == <<"public", k>>       \* the point of the scalar of k's hash
Prefix(k) == <<"prefix", k>>       \* the upper half of k's hash
PointOf(scalar_) == <<"point", scalar_>>
Sha512(slots) == <<"sha512", slots>>
Zeroed == <<"zero">>
Garbage == <<"garbage">>
Text(x) == <<"text", x>>

ASSUME Ed25519Assumption ==
  /\ Messages \subseteq Seq({Text(x) : x \in Contents})
  /\ Unsigned \subseteq Seq({Text(x) : x \in Contents} \cup {Garbage})

(* h * a + nonce, for the scalar a of k; with m added to it, it is another *)
(* slot of the same scalar.                                                *)
SlotS(h, k, n, plus) == <<"s", h, k, n, plus>>

crypto_sign_ed25519_keypair(k) == <<Seed(k), Public(k)>>

-----------------------------------------------------------------------------
(* The hash is made in the playground, which is sm itself when it is signed*)
(* and the output when it is opened.                                       *)
playground(from, public) == [from EXCEPT ![2] = public]

Sign(k, text) ==
  /\ doing = "idle"
  /\ Cardinality(signed) < MaxSigned
  /\ sk' = crypto_sign_ed25519_keypair(k)
  /\ msg' = text
  /\ sm' = <<Garbage, Prefix(k)>> \o text
  /\ doing' = "nonce"
  /\ UNCHANGED <<signed, pk, nonce, hram, output, mlen, ret>>

(* Mutant of HashNonce: the message is not hashed.                         *)
HashPrefixOnly ==
  /\ doing = "nonce"
  /\ nonce' = Sha512(SubSeq(sm, 2, 2))
  /\ doing' = "R"
  /\ UNCHANGED <<signed, sm, msg, sk, pk, hram, output, mlen, ret>>

(* The prefix and the message, which are next to each other.               *)
HashNonce ==
  /\ doing = "nonce"
  /\ nonce' = Sha512(SubSeq(sm, 2, Len(sm)))
  /\ doing' = "R"
  /\ UNCHANGED <<signed, sm, msg, sk, pk, hram, output, mlen, ret>>

PutR ==
  /\ doing = "R"
  /\ sm' = [sm EXCEPT ![1] = PointOf(nonce)]
  /\ doing' = "hram"
  /\ UNCHANGED <<signed, msg, sk, pk, nonce, hram, output, mlen, ret>>

HashToSign ==
  /\ doing = "hram"
  /\ sm' = playground(sm, sk[2])
  /\ hram' = Sha512(sm')
  /\ doing' = "S"
  /\ UNCHANGED <<signed, msg, sk, pk, nonce, output, mlen, ret>>

PutS ==
  /\ doing = "S"
  /\ sm' = [sm EXCEPT ![2] = SlotS(hram, sk[1][2], nonce, 0)]
  /\ signed' = signed \cup {[seed |-> sk[1][2], msg |-> msg, sm |-> sm']}
  /\ doing' = "signed"
  /\ UNCHANGED <<msg, sk, pk, nonce, hram, output, mlen, ret>>

-----------------------------------------------------------------------------
(* R and S of signatures made, and messages, in any combination.           *)
Openable ==
  Unsigned \cup
  { <<e.sm[1], [f.sm[2] EXCEPT ![5] = plus]>> \o text :
      e \in signed, f \in signed, plus \in {0, 1}, text \in Messages }

Open(buffer, public) ==
  /\ doing = "idle"
  /\ sm' = buffer /\ pk' = public
  /\ mlen' = -1
  /\ output' = [k \in 1..Len(buffer) |-> Garbage]
  /\ ret' = 1
  /\ doing' = "unpack"
  /\ UNCHANGED <<signed, msg, sk, nonce, hram>>

(* Too short, or the key is no point.                                      *)
Reject ==
  /\ doing = "unpack"
  /\ Len(sm) < 2 \/ pk[1] # "public"
  /\ ret' = -1
  /\ doing' = "opened"
  /\ UNCHANGED <<signed, sm, msg, sk, pk, nonce, hram, output, mlen>>

HashToOpen ==
  /\ doing = "unpack"
  /\ Len(sm) >= 2 /\ pk[1] = "public"
  /\ output' = playground(sm, pk)
  /\ hram' = Sha512(output')
  /\ doing' = "verify"
  /\ UNCHANGED <<signed, sm, msg, sk, pk, nonce, mlen, ret>>

(* S times the base point less the hash times the public key: the point of *)
(* the nonce, if that is what S was made from.                             *)
Computed ==
  IF sm[2][1] = "s" /\ sm[2][2] = hram /\ Public(sm[2][3]) = pk
    THEN PointOf(sm[2][4]) ELSE <<"other">>

(* Mutant of Verify: what the hash was made in is left on a failure.       *)
VerifyOnly ==
  /\ doing = "verify"
  /\ IF sm[1] = Computed
       THEN /\ output' = [k \in 1..Len(output) |-> IF k <= Len(sm) - 2 THEN sm[k + 2] ELSE output[k]]
            /\ mlen' = Len(sm) - 2 /\ ret' = 0
       ELSE ret' = -1 /\ UNCHANGED <<output, mlen>>
  /\ doing' = "opened"
  /\ UNCHANGED <<signed, sm, msg, sk, pk, nonce, hram>>

Verify ==
  /\ doing = "verify"
  /\ output' = [k \in 1..Len(output) |->
                 IF k > Len(sm) - 2 THEN output[k] ELSE IF sm[1] = Computed THEN sm[k + 2] ELSE Zeroed]
  /\ IF sm[1] = Computed THEN mlen' = Len(sm) - 2 /\ ret' = 0 ELSE ret' = -1 /\ UNCHANGED mlen
  /\ doing' = "opened"
  /\ UNCHANGED <<signed, sm, msg, sk, pk, nonce, hram>>

(* Nothing of a call is left to the next.                                  *)
Return ==
  /\ doing \in {"signed", "opened"}
  /\ sm' = << >> /\ msg' = << >> /\ sk' = << >> /\ pk' = << >>
  /\ nonce' = << >> /\ hram' = << >> /\ output' = << >> /\ mlen' = 0 /\ ret' = 0
  /\ doing' = "idle"
  /\ UNCHANGED signed

-----------------------------------------------------------------------------
Ed25519Init ==
  /\ signed = {}
  /\ sm = << >> /\ msg = << >> /\ sk = << >> /\ pk = << >>
  /\ nonce = << >> /\ hram = << >> /\ output = << >> /\ mlen = 0 /\ ret = 0
  /\ doing = "idle"

Ed25519Step ==
  \/ \E k \in Seeds, text \in Messages : Sign(k, text)
  \/ HashNonce \/ PutR \/ HashToSign \/ PutS
  \/ \E buffer \in Openable, public \in {Public(k) : k \in Seeds} \cup {Garbage} : Open(buffer, public)
  \/ Reject \/ HashToOpen \/ Verify \/ Return

Ed25519Spec == Ed25519Init /\ [][Ed25519Step]_dvars

-----------------------------------------------------------------------------
(* A buffer is opened exactly if it is one that was signed with this key,  *)
(* or has m added to its S, which is reduced when it is read. Then the     *)
(* output begins with the message; otherwise as many slots of it are zero, *)
(* unless the buffer was refused before anything was put there.            *)
OpensExactlySigned ==
  doing = "opened" =>
    LET honest == {e \in signed : Public(e.seed) = pk /\ Len(sm) = Len(e.sm) /\ Len(sm) >= 2
                                  /\ sm[1] = e.sm[1] /\ SubSeq(sm, 3, Len(sm)) = e.msg
                                  /\ \E plus \in {0, 1} : sm[2] = [e.sm[2] EXCEPT ![5] = plus]}
    IN /\ ret = 0 <=> honest # {}
       /\ ret = 0 => mlen = Len(sm) - 2 /\ \A e \in honest : SubSeq(output, 1, mlen) = e.msg
       /\ ret # 0 => mlen = -1 /\ \A k \in 1..(Len(sm) - 2) : output[k] \in {Zeroed, Garbage}

(* No two messages are signed with one key and the same R: the difference  *)
(* of the two S would be a known multiple of the secret scalar.            *)
NoncesDiffer ==
  \A e \in signed, f \in signed : e.seed = f.seed /\ e.sm[1] = f.sm[1] => e.msg = f.msg
=============================================================================
