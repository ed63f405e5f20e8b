------------------------------ MODULE MCLibrary -----------------------------
(* Six parts of the library that know nothing of each other, one of them   *)
(* at work in each behaviour: a file is hashed, a block is transformed, a  *)
(* header is decoded, a key is derived, a hash table is used, or a buffer  *)
(* is encrypted.                                                           *)
EXTENDS HashFile, Sha2Transform, Base64, BcryptPbkdf, Ohash, OhashInterval, Blowfish

(* Bytes that tell their places, and bytes that look like padding.         *)
TheContents ==
  {[k \in 1..l |-> k] : l \in 0..13} \cup {[k \in 1..l |-> 128 * (k % 2)] : l \in 1..9}

(* Every string of four of some characters, what b64_ntop makes of strings *)
(* of three to five bytes, and the same with a character inserted or left  *)
(* out.                                                                    *)
SomeChars == {0, 1, 4, 16, 63} \cup {Pad64, Space, Other}
Written == {b64_ntop(x, 9) : x \in [1..3 -> {0, 15, 129, 255}] \cup [1..4 -> {0, 129, 255}] \cup [1..5 -> {0, 255}]}
Without(s, k) == SubSeq(s, 1, k - 1) \o SubSeq(s, k + 1, Len(s))
With(s, k, c) == SubSeq(s, 1, k - 1) \o <<c>> \o SubSeq(s, k, Len(s))
TheSources ==
  [1..4 -> SomeChars] \cup Written
    \cup UNION {{Without(s, k) : k \in 1..Len(s)} : s \in Written}
    \cup UNION {{With(s, k, c) : k \in {1, 3, Len(s), Len(s) + 1}, c \in {63, Pad64, Space, Other}} : s \in Written}

(* Strings whose hash values are 0, 4, 3 and 0 in four bits: three of them *)
(* fall together in four slots, two in eight.                              *)
TheKeys == {<<0>>, <<4, 5>>, <<-13>>, <<1, 4>>}
TheInterval == [s \in TheKeys |-> ohash_interval(s)]

TheSchedules ==
  {[k \in 0..15 |-> v] : v \in {0, 15}}
    \cup {[k \in 0..15 |-> IF k = l THEN 8 ELSE 0] : l \in {0, 6, 15}} \cup {[k \in 0..15 |-> k]}
TheStarts == {[k \in 0..7 |-> 0], [k \in 0..7 |-> 2 * k + 1]}
TheK == [j \in 0..79 |-> (7 * j + 3) % 16]
(* Distances that differ, as far as a word of four bits allows.            *)
TheDistances ==
  [Sigma0 |-> <<1, 2, 3>>, Sigma1 |-> <<0, 1, 3>>, sigma0 |-> <<1, 3, 2>>, sigma1 |-> <<2, 3, 1>>]

(* Keys and salts whose ends fall within a word and between words.         *)
TheBlfKeys == {<<1>>, <<1, 0, 1>>, <<0, 1, 1, 0, 1, 0, 0, 1>>}
TheBlfSalts == {<<0>>, <<0, 0, 0, 0, 0>>, <<1, 1, 0>>, <<0, 0, 1, 1>>}
ThePlaintexts == {<<0, 0>>} \cup [1..4 -> {0, 9}] \cup [1..6 -> {5, 15}]
TheIvs == {<<0, 0>>, <<3, 12>>}
TheInitstate ==
  [P |-> [k \in 0..5 |-> (5 * k + 3) % 16], S |-> [b \in 0..3 |-> [x \in 0..1 |-> (7 * x + 3 * b + 1) % 16]]]

-----------------------------------------------------------------------------
HashIdle ==
  /\ algo = "SHA256" /\ file = << >> /\ ctx = << >> /\ len = 0 /\ foff = 0 /\ seen = << >>
  /\ digest = NoDigest /\ hashing = "idle" /\ rewrites = 0
TransformIdle ==
  /\ blk = << >> /\ chain = << >> /\ final = 0 /\ unrolled = FALSE /\ reg = << >> /\ W = << >>
  /\ turn = 0 /\ transforming = "idle" /\ stdwords = << >> /\ stdreg = << >>
DecodeIdle ==
  /\ src = << >> /\ at = 1 /\ targsize = 0 /\ target = << >> /\ tarindex = 0 /\ state = 0
  /\ decoding = "idle"
DeriveIdle ==
  /\ origkeylen = 1 /\ rounds = 0 /\ keylen = 0 /\ amt = 0 /\ count = 0 /\ out = {} /\ i = 0
  /\ key = << >> /\ deriving = "idle"
TableIdle ==
  /\ t = EmptyTable(InitSize) /\ size = InitSize /\ total = 0 /\ deleted = 0
  /\ tpc = "end" /\ sought = NoKey /\ slot = 0 /\ empty = NONE
  /\ newt = EmptyTable(0) /\ newsize = 0 /\ pos = 0 /\ listed = << >>
BlowfishIdle ==
  /\ blfmode = "ecb" /\ blfkey = << >> /\ blfsalt = << >> /\ blfiv = << >> /\ plain = << >>
  /\ text = << >> /\ blf = << >> /\ block = 0 /\ pass = 0 /\ crypting = "idle"

LibraryInit ==
  \/ HashInit /\ TransformIdle /\ DecodeIdle /\ DeriveIdle /\ TableIdle /\ BlowfishIdle
  \/ HashIdle /\ TransformInit /\ DecodeIdle /\ DeriveIdle /\ TableIdle /\ BlowfishIdle
  \/ HashIdle /\ TransformIdle /\ DecodeInit /\ DeriveIdle /\ TableIdle /\ BlowfishIdle
  \/ HashIdle /\ TransformIdle /\ DecodeIdle /\ DeriveInit /\ TableIdle /\ BlowfishIdle
  \/ HashIdle /\ TransformIdle /\ DecodeIdle /\ DeriveIdle /\ TableInit /\ BlowfishIdle
  \/ HashIdle /\ TransformIdle /\ DecodeIdle /\ DeriveIdle /\ TableIdle /\ BlowfishInit

lvars == <<hvars, wvars, bvars, pvars, tvars, fvars>>

(* What goes on to its end once it was begun: the derivation of a key and  *)
(* the calls of the table.                                                 *)
LibraryGoesOn ==
  \/ DeriveStep /\ UNCHANGED <<hvars, wvars, bvars, tvars, fvars>>
  \/ TableStep /\ UNCHANGED <<hvars, wvars, bvars, pvars, fvars>>

LibraryStep ==
  \/ HashStep /\ UNCHANGED <<wvars, bvars, pvars, tvars, fvars>>
  \/ TransformStep /\ UNCHANGED <<hvars, bvars, pvars, tvars, fvars>>
  \/ DecodeStep /\ UNCHANGED <<hvars, wvars, pvars, tvars, fvars>>
  \/ BlowfishStep /\ UNCHANGED <<hvars, wvars, bvars, pvars, tvars>>
  \/ Rewrite /\ UNCHANGED <<wvars, bvars, pvars, tvars, fvars>>
  \/ TableCall /\ UNCHANGED <<hvars, wvars, bvars, pvars, fvars>>

LibraryDone ==
  /\ hashing \in {"idle", "done"} /\ transforming \in {"idle", "done"}
  /\ decoding \in {"idle", "done", "error"} /\ deriving \in {"idle", "done", "bad"}
  /\ tpc = "end" /\ crypting \in {"idle", "done"}
  /\ UNCHANGED lvars

LibraryNext == LibraryGoesOn \/ LibraryStep \/ LibraryDone

LibrarySpec == LibraryInit /\ [][LibraryNext]_lvars /\ WF_lvars(LibraryGoesOn)
=============================================================================
